---- MODULE Spec2Model ----
(***************************************************************************)
(* OjaInjection: the container (registrations, singleton cache,            *)
(* resolution), the scope tree (scoped cache, externals, lifecycle         *)
(* tracking, destruction) and the global tick manager.                     *)
(***************************************************************************)
EXTENDS Integers, Sequences, FiniteSets, TLC

(***************************************************************************)
(* Bounds of the exploration.                                              *)
(***************************************************************************)
MaxScopes == 2
MaxInstances == 3
MaxProvides == 1

(***************************************************************************)
(* The services of the application under analysis: constructors, one       *)
(* token, the metadata the decorators stamp on each class and the          *)
(* lifecycle methods each class implements.                                *)
(***************************************************************************)
Classes == {"Logger", "Stats", "Ctl", "Bullet", "Player",
            "Clock", "A", "B", "X", "PlayerData", "Sword", "Bow", "PluginA", "PluginB", "Host",
            "Armory", "Beacon", "Provider", "Resolver", "Spawner", "Reaper",
            "Audit", "Report", "Cache", "Faulty", "Broken"}
Tokens == {"PT", "Weapon", "Plugins"}
Keys == Classes \cup Tokens
NoKey == "-"
\* The strings a keyed factory is called with.
KeyedKeys == {"sword", "bow", "axe"}
\* Values of the language that are not instances of a class.
Builtins == {"Array", "Function"}

DependencyTokens ==
  [c \in Classes |->
     CASE c = "Stats" -> <<"Logger">>
       [] c = "Ctl" -> <<"Stats", "Bullet">>
       [] c = "A" -> <<"B">>
       [] c = "B" -> <<"A">>
       [] c = "X" -> <<"Logger", "A">>
       [] c = "PlayerData" -> <<"PT">>
       [] c = "Host" -> <<"Plugins">>
       [] c = "Armory" -> <<"Weapon">>
       [] c = "Audit" -> <<"Logger">>
       [] c = "Report" -> <<"Stats", "Audit", "Logger">>
       [] OTHER -> <<>>]

Capabilities ==
  [c \in Classes \cup Builtins |->
     CASE c = "Logger" -> {"Start", "Destroy", "Tick"}
       [] c = "Clock" -> {"Start", "StartThrows"}
       [] c = "Stats" -> {"Destroy", "Tick", "DestroyThrows", "TickThrows"}
       [] c = "Ctl" -> {"Start", "FixedTick"}
       [] c = "Bullet" -> {"Destroy", "Tick", "FixedTick", "RenderTick"}
       [] c = "Player" -> {"Destroy", "Tick", "RenderTick"}
       [] c = "Beacon" -> {"Tick"}
       [] c = "Provider" -> {"Destroy", "DestroyProvides"}
       [] c = "Resolver" -> {"Destroy", "DestroyResolves"}
       [] c = "Spawner" -> {"Destroy", "DestroyCreatesChild"}
       [] c = "Reaper" -> {"Tick", "TickDestroys"}
       [] c = "Cache" -> {"Warmup", "Destroy", "Tick"}
       [] c = "Faulty" -> {"ConstructorThrows", "Start", "Tick"}
       [] c = "Broken" -> {"ConstructorThrows"}
       [] OTHER -> {}]

\* The string a throwing constructor raises, character by character, as the
\* catch of CreateInstanceWithContext receives it.
ThrownMessage ==
  [c \in Classes |->
     CASE c = "Faulty" -> <<"b", "o", "o", "m", " ", "i", "n", " ",
                            "c", "o", "n", "s", "t", "r", "u", "c", "t", "o", "r", " ",
                            "o", "f", " ", "F", "a", "u", "l", "t", "y">>
       [] c = "Broken" -> <<"B", "U", "G">>
       [] OTHER -> <<>>]

(***************************************************************************)
(* Values: every object is a record with an identity, its class and the    *)
(* constructor arguments it was built with.  NoValue stands for undefined. *)
(***************************************************************************)
NoValue == [id |-> 0, cls |-> NoKey, args |-> <<>>]
Instance(id, cls, args) == [id |-> id, cls |-> cls, args |-> args]

\* Objects created by the application outside the container.
PlayerOne == Instance(101, "Player", <<>>)
ExternalValues == {PlayerOne}
ClockOne == Instance(102, "Clock", <<>>)
BeaconOne == Instance(103, "Beacon", <<>>)
\* The frame times the host delivers with its signals.
DeltaTimes == {1, 2}

(***************************************************************************)
(* Modules (registerModule) and scope modules (registerScopeModule).       *)
(***************************************************************************)
Registration(token, impl, lifetime) ==
  [Token |-> token, Implementation |-> impl, Lifetime |-> lifetime, Type |-> "single"]
NoRegistration == [Token |-> NoKey, Implementation |-> NoKey, Lifetime |-> NoKey, Type |-> NoKey]

Single(impl) == Registration(impl, impl, "singleton")
Scoped(impl) == Registration(impl, impl, "scoped")
Factory(impl) == Registration(impl, impl, "factory")

MultiRegistration(token, implementations) ==
  [token |-> token, implementations |-> implementations]
KeyedRegistration(token, key, impl) == [token |-> token, key |-> key, implementation |-> impl]

\* What registerModule hands to Container.Use: the three lists of its register.
Module(registrationList, multiList, keyedList) ==
  [registrations |-> registrationList, multiRegistrations |-> multiList,
   keyedRegistrations |-> keyedList]

GameModule ==
  Module(<<Single("Logger"), Scoped("Stats"), Scoped("Ctl"), Factory("Bullet")>>, <<>>, <<>>)
Modules == {GameModule}

\* The modules of a second application, which wires plugins and keyed weapons.
CoreModule ==
  Module(<<Single("Logger"), Single("Clock"), Scoped("Host"), Scoped("Armory")>>,
         <<MultiRegistration("Plugins", <<"PluginA", "PluginB">>)>>,
         <<KeyedRegistration("Weapon", "sword", "Sword"),
           KeyedRegistration("Weapon", "bow", "Bow")>>)
PluginModule ==
  Module(<<Factory("Bullet")>>, <<MultiRegistration("Plugins", <<"PluginB">>)>>, <<>>)
\* A module that registers a service whose dependency nobody registers, twice.
LateModule == Module(<<Scoped("PlayerData"), Factory("PlayerData")>>, <<>>, <<>>)
WiringModules == {CoreModule, PluginModule, LateModule}
\* A module that registers the token PlayerData depends on: the records of
\* single(Player).Bind(PT).
TokenModule ==
  Module(<<Single("Player"), Registration("PT", "Player", "singleton")>>, <<>>, <<>>)
\* The records of a module that calls single(Logger).Bind(PT).
BoundModule == Module(<<Single("Logger"), Registration("PT", "Logger", "singleton")>>, <<>>, <<>>)
ValidationModules == {CoreModule, LateModule, TokenModule, BoundModule}

\* The modules of a third application, whose services A and B depend on each
\* other, under each lifetime.
CycleModule(lifetime) ==
  Module(<<Single("Logger"), Registration("A", "A", lifetime),
           Registration("B", "B", lifetime), Scoped("X")>>, <<>>, <<>>)
\* A module whose multi token has an implementation that takes the list itself,
\* and whose keyed token has an implementation that takes the function itself.
CompositeModule ==
  Module(<<Scoped("Host"), Scoped("Armory")>>,
         <<MultiRegistration("Plugins", <<"PluginA", "Host">>)>>,
         <<KeyedRegistration("Weapon", "sword", "Armory")>>)
\* A module whose services depend on the Logger along several paths.
DiamondModule ==
  Module(<<Scoped("Report"), Factory("Audit"), Scoped("Stats"), Factory("Logger")>>, <<>>, <<>>)
\* A module with a scoped service that has a Warmup method and a singleton whose
\* constructor throws.
FaultyModule == Module(<<Scoped("Cache"), Single("Faulty"), Single("Broken")>>, <<>>, <<>>)
CycleModules ==
  {CycleModule("singleton"), CycleModule("scoped"), CycleModule("factory"), CompositeModule,
   DiamondModule}

\* The module of a fourth application, whose singletons depend on the scoped
\* Logger: directly (Audit, also bound to PT), through a factory (Ctl), through the
\* implementation of a multi token (Host) and through the implementation of a keyed
\* token (Armory).
LifetimeModule ==
  Module(<<Scoped("Logger"), Factory("Stats"), Factory("Bullet"),
           Single("Audit"), Registration("PT", "Audit", "singleton"), Single("Ctl"),
           Single("Host"), Single("Armory")>>,
         <<MultiRegistration("Plugins", <<"Stats">>)>>,
         <<KeyedRegistration("Weapon", "sword", "Stats")>>)

\* The module of a fifth application, whose classes call back into their scope
\* from Destroy and from Tick.
ReentryModule ==
  Module(<<Scoped("Provider"), Scoped("Resolver"), Scoped("Spawner"), Scoped("Beacon"),
           Scoped("Reaper")>>,
         <<>>, <<>>)

PlayerScope == [root |-> "Stats", externals |-> << <<"PT", PlayerOne>> >>]
OverrideScope == [root |-> NoKey, externals |-> << <<"Logger", PlayerOne>>, <<"Stats", PlayerOne>> >>]
ScopeModules == {PlayerScope, OverrideScope}
PlainScope == [root |-> NoKey, externals |-> <<>>]
\* Scope modules with a root: one provides the same object under two keys, one
\* provides it once, one provides the root itself.
SessionScope == [root |-> "Ctl", externals |-> << <<"PT", ClockOne>>, <<"Clock", ClockOne>> >>]
StartScopes ==
  {SessionScope,
   [root |-> "Ctl", externals |-> << <<"PT", ClockOne>> >>],
   [root |-> "Stats", externals |-> << <<"Stats", ClockOne>>, <<"PT", PlayerOne>> >>]}

\* The keys the application resolves and provides.
ContainerKeys == {"Logger", "Stats"}
ScopeKeys == {"Logger", "Stats", "Ctl", "Bullet", "PT"}
ProvideKeys == {"Stats", "Bullet"}
TickScopeKeys == {"Ctl", "Bullet"}
WiringContainerKeys == {"Logger", "Weapon", "Plugins"}
WiringScopeKeys == {"Host", "Armory", "Weapon", "Plugins"}
ValidationContainerKeys == {"Logger", "PT"}
LifetimeContainerKeys == {"Logger", "PT", "Ctl", "Host", "Armory", "Weapon"}
LifetimeScopeKeys == {"Logger", "Stats", "PT", "Ctl", "Host", "Armory"}
CycleContainerKeys == {"Logger", "A", "X"}
CycleScopeKeys == {"Logger", "A", "B", "X", "Host", "Armory", "Report"}

VARIABLES
  registrations,   \* Container._registrations, in insertion order
  multiRegistrations,  \* Container._multiRegistrations: token -> implementations
  keyedRegistrations,  \* Container._keyedRegistrations: token -> key -> implementation
  singletons,      \* Container._singletons
  validated,       \* Container._validated
  scopes,          \* every Scope object created so far, by scope number
  tickManager,     \* the TickManager of the container
  isClient,        \* RunService.IsClient() of the host
  nextId,          \* identity given to the next object constructed
  built,           \* every object a constructor has returned, with its key and scope
  provides,        \* number of ProvideRuntime calls made by the application
  functions,       \* the functions ResolveKeyed has returned to the application
  last             \* the latest call of the application and its outcome

vars == <<registrations, multiRegistrations, keyedRegistrations, singletons, validated,
          scopes, tickManager, isClient,
          nextId, built, provides, functions, last>>

(***************************************************************************)
(* Sequence helpers.                                                       *)
(***************************************************************************)
Range(s) == {s[i] : i \in 1..Len(s)}

\* The string made of the characters cs.
RECURSIVE Join(_)
Join(cs) == IF cs = <<>> THEN "" ELSE Head(cs) \o Join(Tail(cs))
Includes(s, x) == \E i \in 1..Len(s) : s[i] = x
\* Array.indexOf: first position of x, 0 when absent.
IndexOf(s, x) ==
  IF Includes(s, x) THEN CHOOSE i \in 1..Len(s) : s[i] = x /\ \A j \in 1..(i-1) : s[j] # x
  ELSE 0
\* Array.unorderedRemove: the last element takes the place of the removed one.
UnorderedRemove(s, i) ==
  LET n == Len(s) IN
  [j \in 1..(n-1) |-> IF j = i THEN s[n] ELSE s[j]]
Count(s, x) == Cardinality({i \in 1..Len(s) : s[i] = x})

EmptyMap == [k \in Keys |-> NoValue]

(***************************************************************************)
(* The mutable objects a resolve or a destroy works on, as one record:     *)
(* the operators below take it and return the record after the call.       *)
(* dlog collects the steps Scope.Destroy executes during the call.         *)
(***************************************************************************)
World ==
  [validated |-> validated, singletons |-> singletons, scopes |-> scopes,
   tickManager |-> tickManager, nextId |-> nextId, built |-> built, dlog |-> <<>>]

\* Outcome of a call: the world after it, and the value returned or the error thrown.
Return(w, v, chain) == [w |-> w, ok |-> TRUE, val |-> v, err |-> "", chain |-> chain]
Throw(w, e, chain) == [w |-> w, ok |-> FALSE, val |-> NoValue, err |-> e, chain |-> chain]

(***************************************************************************)
(* TickManager                                                             *)
(***************************************************************************)
\* heartbeatConnection and renderSteppedConnection tell whether the field holds a
\* connection; connected counts the callbacks the tick manager has connected to
\* each signal of RunService.
NewTickManager ==
  [tickables |-> <<>>, fixedTickables |-> <<>>, renderTickables |-> <<>>,
   heartbeatConnection |-> FALSE, renderSteppedConnection |-> FALSE, paused |-> FALSE,
   connected |-> [Heartbeat |-> 0, RenderStepped |-> 0], destroyed |-> FALSE]

\* EnsureHeartbeatConnection connecting at every call.
EnsureHeartbeatConnection_Always(tm) ==
  [tm EXCEPT !.heartbeatConnection = TRUE, !.connected.Heartbeat = @ + 1]

EnsureHeartbeatConnection(tm) ==
  IF ~tm.heartbeatConnection
  THEN [tm EXCEPT !.heartbeatConnection = TRUE, !.connected.Heartbeat = @ + 1]
  ELSE tm

EnsureRenderSteppedConnection(tm) ==
  IF ~tm.renderSteppedConnection /\ isClient
  THEN [tm EXCEPT !.renderSteppedConnection = TRUE, !.connected.RenderStepped = @ + 1]
  ELSE tm

RegisterTickable(tm, x) ==
  EnsureHeartbeatConnection([tm EXCEPT !.tickables = Append(@, x)])

RegisterFixedTickable(tm, x) ==
  EnsureHeartbeatConnection([tm EXCEPT !.fixedTickables = Append(@, x)])

RegisterRenderTickable(tm, x) ==
  EnsureRenderSteppedConnection([tm EXCEPT !.renderTickables = Append(@, x)])

UnregisterTickable(tm, x) ==
  LET index == IndexOf(tm.tickables, x) IN
  IF index # 0 THEN [tm EXCEPT !.tickables = UnorderedRemove(@, index)] ELSE tm

UnregisterFixedTickable(tm, x) ==
  LET index == IndexOf(tm.fixedTickables, x) IN
  IF index # 0 THEN [tm EXCEPT !.fixedTickables = UnorderedRemove(@, index)] ELSE tm

UnregisterRenderTickable(tm, x) ==
  LET index == IndexOf(tm.renderTickables, x) IN
  IF index # 0 THEN [tm EXCEPT !.renderTickables = UnorderedRemove(@, index)] ELSE tm

\* A callback invoked, or a step executed, on behalf of scope s (0: none).
Event(ev, s, x, note) == [ev |-> ev, scope |-> s, inst |-> x, note |-> note]

\* Pause that also drops the subscription to Heartbeat.
Pause_Disconnecting(tm) ==
  [tm EXCEPT !.paused = TRUE, !.heartbeatConnection = FALSE, !.connected.Heartbeat = 0]

Pause(tm) == [tm EXCEPT !.paused = TRUE]

Resume(tm) == [tm EXCEPT !.paused = FALSE]

\* Disconnect on a handle the field holds; the field keeps the handle.
Disconnect(handle, connections) ==
  IF handle /\ connections > 0 THEN connections - 1 ELSE connections

\* TickManager.Destroy: both handles are disconnected and the lists emptied.
DestroyTickManager(tm) ==
  [tm EXCEPT !.connected.Heartbeat = Disconnect(tm.heartbeatConnection, @),
             !.connected.RenderStepped = Disconnect(tm.renderSteppedConnection, @),
             !.tickables = <<>>, !.fixedTickables = <<>>, !.renderTickables = <<>>,
             !.destroyed = TRUE]

\* A tick callback ev(deltaTime) invoked on x inside try/catch: a throw is trapped
\* and noted.
TickThrows(x) == "TickThrows" \in Capabilities[x.cls]

Callback(ev, x, deltaTime) ==
  [ev |-> ev, scope |-> 0, inst |-> x, dt |-> deltaTime,
   note |-> IF ev = "Tick" /\ TickThrows(x) THEN "threw" ELSE ""]

(***************************************************************************)
(* Scope                                                                   *)
(***************************************************************************)
NewScope(parent) ==
  [parent |-> parent, childScopes |-> <<>>,
   scopedInstances |-> EmptyMap, externalInstances |-> EmptyMap,
   destroyed |-> FALSE, destroyables |-> <<>>,
   tickables |-> <<>>, fixedTickables |-> <<>>, renderTickables |-> <<>>,
   returned |-> FALSE, tracked |-> {}, registered |-> {}, destroyCalls |-> <<>>]

IsStartable(x) == "Start" \in Capabilities[x.cls]
StartThrows(x) == "StartThrows" \in Capabilities[x.cls]
IsDestroyable(x) == "Destroy" \in Capabilities[x.cls]
IsTickable(x) == "Tick" \in Capabilities[x.cls]
IsFixedTickable(x) == "FixedTick" \in Capabilities[x.cls]
IsRenderTickable(x) == "RenderTick" \in Capabilities[x.cls]
DestroyThrows(x) == "DestroyThrows" \in Capabilities[x.cls]

\* Scope.TrackInstance on scope s.  The fields tracked, registered and destroyCalls
\* of a scope remember, beyond the clearing done by Destroy, what the scope has
\* tracked as destroyable, registered with the tick manager and called Destroy on.
TrackDestroyable(w, s, x) ==
  IF IsDestroyable(x)
  THEN [w EXCEPT !.scopes[s].destroyables = Append(@, x), !.scopes[s].tracked = @ \cup {x}]
  ELSE w

\* TrackInstance keeping a tickable in the list of the scope without registering
\* it with the tick manager.
TrackTickable_Unregistered(w, s, x) ==
  IF IsTickable(x)
  THEN [w EXCEPT !.scopes[s].tickables = Append(@, x), !.scopes[s].registered = @ \cup {x}]
  ELSE w

TrackTickable(w, s, x) ==
  IF IsTickable(x)
  THEN [w EXCEPT !.scopes[s].tickables = Append(@, x), !.scopes[s].registered = @ \cup {x},
                 !.tickManager = RegisterTickable(@, x)]
  ELSE w

TrackFixedTickable(w, s, x) ==
  IF IsFixedTickable(x)
  THEN [w EXCEPT !.scopes[s].fixedTickables = Append(@, x),
                 !.scopes[s].registered = @ \cup {x},
                 !.tickManager = RegisterFixedTickable(@, x)]
  ELSE w

TrackRenderTickable(w, s, x) ==
  IF IsRenderTickable(x)
  THEN [w EXCEPT !.scopes[s].renderTickables = Append(@, x),
                 !.scopes[s].registered = @ \cup {x},
                 !.tickManager = RegisterRenderTickable(@, x)]
  ELSE w

TrackInstance(w, s, x) ==
  TrackRenderTickable(TrackFixedTickable(TrackTickable(TrackDestroyable(w, s, x), s, x),
                                         s, x),
                      s, x)

(***************************************************************************)
(* Container: validation and resolution                                    *)
(***************************************************************************)
Has(regs, token) == \E i \in 1..Len(regs) : regs[i].Token = token

HasRegistration(token) == Has(registrations, token)

GetRegistration(token) ==
  IF HasRegistration(token)
  THEN registrations[CHOOSE i \in 1..Len(registrations) : registrations[i].Token = token]
  ELSE NoRegistration

\* _multiRegistrations.has(token) and _keyedRegistrations.has(token), for a
\* token that IsToken.
HasMulti(token) == token \in Tokens /\ multiRegistrations[token] # <<>>
HasKeyed(token) == token \in Tokens /\ \E k \in KeyedKeys : keyedRegistrations[token][k] # NoKey

\* ValidateRegistration: TRUE when it does not throw.
ValidateRegistration(registration) ==
  LET dependencyTokens == DependencyTokens[registration.Implementation] IN
  \A i \in 1..Len(dependencyTokens) :
     \/ HasRegistration(dependencyTokens[i])
     \/ HasMulti(dependencyTokens[i])
     \/ HasKeyed(dependencyTokens[i])

\* Validate, on the validated flag v: the flag afterwards, whether it threw, and
\* the number of registrations it passed to ValidateRegistration.
Validate(v) ==
  IF v THEN [validated |-> TRUE, ok |-> TRUE, examined |-> 0]
  ELSE IF \E i \in 1..Len(registrations) : ~ValidateRegistration(registrations[i])
       THEN [validated |-> FALSE, ok |-> FALSE, examined |-> Len(registrations)]
       ELSE [validated |-> TRUE, ok |-> TRUE, examined |-> Len(registrations)]

\* IsCircular finding a key only once the chain holds it twice.
IsCircular_SecondEntry(token, chain) == Count(chain, token) >= 2

\* ContainerErrors.IsCircular(token, context)
IsCircular(token, chain) == Includes(chain, token)

RECURSIVE CreateInstanceWithContext(_, _, _, _)
RECURSIVE ResolveDependenciesWithContext(_, _, _, _, _, _)
RECURSIVE ResolveDependencyWithContext(_, _, _, _)
RECURSIVE ScopeResolveWithContext(_, _, _, _)
RECURSIVE ContainerResolve(_, _)
RECURSIVE ResolveMultiFrom(_, _, _, _, _, _)

\* The chain after context.Chain.pop().
Pop(chain) == SubSeq(chain, 1, Len(chain) - 1)

\* Container.ValidateLifecycleInterfaces(instance, lifetime): whether it returns.
ValidateLifecycleInterfaces(instance, lifetime) ==
  lifetime = "singleton" \/ "Warmup" \notin Capabilities[instance.cls]

\* The catch of CreateInstanceWithContext receiving the string e that the
\* constructor of token threw.  string.find(e, "[OjaInjection]") reads its second
\* argument as a pattern, the set of the characters between the brackets: a
\* message holding one of them is thrown on as it is, named here by its text; only
\* a message holding none of them is wrapped in a ConstructorError.
Caught(w, e, chain) ==
  IF \E i \in 1..Len(e) : e[i] \in {"O", "j", "a", "I", "n", "e", "c", "t", "i", "o"}
  THEN Throw(w, "RAW:" \o Join(e), chain)
  ELSE Throw(w, "ConstructorError", chain)

\* The end of CreateInstanceWithContext with a ValidateLifecycleInterfaces that
\* only warns.
Construct_Lenient(deps, registration, scope) ==
  IF ~deps.ok THEN deps
  ELSE IF "ConstructorThrows" \in Capabilities[registration.Implementation]
  THEN Caught(deps.w, ThrownMessage[registration.Implementation], deps.chain)
  ELSE
    LET instance == Instance(deps.w.nextId, registration.Implementation, deps.val) IN
    Return([deps.w EXCEPT
              !.nextId = @ + 1,
              !.built = @ \cup {[inst |-> instance, key |-> registration.Token,
                                 scope |-> scope, lifetime |-> registration.Lifetime]}],
           instance, Pop(deps.chain))

\* The end of CreateInstanceWithContext without context.Chain.pop().
Construct_Unpopped(deps, registration, scope) ==
  IF ~deps.ok THEN deps
  ELSE IF "ConstructorThrows" \in Capabilities[registration.Implementation]
  THEN Caught(deps.w, ThrownMessage[registration.Implementation], deps.chain)
  ELSE IF ~ValidateLifecycleInterfaces(Instance(deps.w.nextId, registration.Implementation,
                                                deps.val),
                                       registration.Lifetime)
  THEN Throw([deps.w EXCEPT
                !.nextId = @ + 1,
                !.built = @ \cup {[inst |-> Instance(deps.w.nextId,
                                                     registration.Implementation, deps.val),
                                   key |-> registration.Token,
                                   scope |-> scope, lifetime |-> registration.Lifetime]}],
             "LifecycleViolation", deps.chain)
  ELSE
    LET instance == Instance(deps.w.nextId, registration.Implementation, deps.val) IN
    Return([deps.w EXCEPT
              !.nextId = @ + 1,
              !.built = @ \cup {[inst |-> instance, key |-> registration.Token,
                                 scope |-> scope, lifetime |-> registration.Lifetime]}],
           instance, deps.chain)

\* The end of CreateInstanceWithContext: deps is the outcome of resolving the
\* constructor's dependencies, with the chain the context holds after them.  The
\* constructor is called, the instance is validated and the chain popped; an
\* error of the dependencies, of the constructor or of the validation is thrown on
\* with the chain as it is.  The validation runs after the constructor has
\* returned: the object it refuses has been constructed, and is handed to nobody.
Construct(deps, registration, scope) ==
  IF ~deps.ok THEN deps
  ELSE IF "ConstructorThrows" \in Capabilities[registration.Implementation]
  THEN Caught(deps.w, ThrownMessage[registration.Implementation], deps.chain)
  ELSE IF ~ValidateLifecycleInterfaces(Instance(deps.w.nextId, registration.Implementation,
                                                deps.val),
                                       registration.Lifetime)
  THEN Throw([deps.w EXCEPT
                !.nextId = @ + 1,
                !.built = @ \cup {[inst |-> Instance(deps.w.nextId,
                                                     registration.Implementation, deps.val),
                                   key |-> registration.Token,
                                   scope |-> scope, lifetime |-> registration.Lifetime]}],
             "LifecycleViolation", deps.chain)
  ELSE
    LET instance == Instance(deps.w.nextId, registration.Implementation, deps.val) IN
    Return([deps.w EXCEPT
              !.nextId = @ + 1,
              !.built = @ \cup {[inst |-> instance, key |-> registration.Token,
                                 scope |-> scope, lifetime |-> registration.Lifetime]}],
           instance, Pop(deps.chain))

\* CreateInstanceWithContext reporting the chain without the key found on it.
CreateInstanceWithContext_ShortChain(w, registration, chain, scope) ==
  IF IsCircular(registration.Token, chain)
  THEN Throw(w, "CircularDependency", chain)
  ELSE Construct(ResolveDependenciesWithContext(w, registration.Implementation,
                                                Append(chain, registration.Token),
                                                scope, 1, <<>>),
                 registration, scope)

\* Container.CreateInstanceWithContext(registration, context, scope); scope 0 is
\* "no scope".  On success the chain is popped; on an error it is left as it is.
CreateInstanceWithContext(w, registration, chain, scope) ==
  IF IsCircular(registration.Token, chain)
  THEN Throw(w, "CircularDependency", Append(chain, registration.Token))
  ELSE Construct(ResolveDependenciesWithContext(w, registration.Implementation,
                                                Append(chain, registration.Token),
                                                scope, 1, <<>>),
                 registration, scope)

\* One turn of the loop of ResolveDependenciesWithContext: resolved is the outcome
\* of resolving parameter i.
NextDependency(resolved, constructor, scope, i, acc) ==
  IF ~resolved.ok THEN resolved
  ELSE ResolveDependenciesWithContext(resolved.w, constructor, resolved.chain, scope, i + 1,
                                      Append(acc, resolved.val))

\* Container.ResolveDependenciesWithContext: parameters i.. of the constructor,
\* acc holding the parameters resolved so far.
ResolveDependenciesWithContext(w, constructor, chain, scope, i, acc) ==
  IF i > Len(DependencyTokens[constructor]) THEN Return(w, acc, chain)
  ELSE NextDependency(ResolveDependencyWithContext(w, DependencyTokens[constructor][i],
                                                   chain, scope),
                      constructor, scope, i, acc)

\* _singletons.set(token, instance) after a successful construction r.
CacheSingleton(r, token) ==
  IF r.ok THEN Return([r.w EXCEPT !.singletons[token] = r.val], r.val, r.chain) ELSE r

\* The error of the runtime when a method that an object does not have is called.
MissingMethod == "JS:TypeError: this.CreateInstance is not a function"

\* this.CreateInstance(registration, scope): the class Container defines no
\* method of this name, so the call is a call of a missing method.  The runtime
\* raises its error before anything is constructed; the error is not one of the
\* library and carries no chain.
CreateInstance(w, registration, scope) == Throw(w, MissingMethod, <<>>)

\* The array ResolveMulti returns, and the function ResolveKeyed returns: the
\* closure captures the token and the scope (0: none).
Array(elements) == [id |-> 0, cls |-> "Array", args |-> elements]
Closure(token, scope) ==
  [id |-> 0, cls |-> "Function", args |-> <<[id |-> scope, cls |-> token, args |-> <<>>]>>]

\* One turn of the map of ResolveMulti: r is the outcome of CreateInstance for
\* implementation i.  Its error leaves the map and ResolveMulti, and the context
\* of the caller as it is.
MultiNext(r, token, chain, scope, i, acc) ==
  IF ~r.ok THEN Throw(r.w, r.err, chain)
  ELSE ResolveMultiFrom(r.w, token, chain, scope, i + 1, Append(acc, r.val))

\* The map of ResolveMulti from implementation i, acc holding the instances so far.
ResolveMultiFrom(w, token, chain, scope, i, acc) ==
  IF i > Len(multiRegistrations[token]) THEN Return(w, Array(acc), chain)
  ELSE MultiNext(CreateInstance(w, [Token |-> token,
                                    Implementation |-> multiRegistrations[token][i],
                                    Lifetime |-> "singleton", Type |-> "multi"],
                                scope),
                 token, chain, scope, i, acc)

\* Container.ResolveMulti(token, scope)
ResolveMulti(w, token, chain, scope) == ResolveMultiFrom(w, token, chain, scope, 1, <<>>)

\* Container.ResolveKeyed(token, scope)
ResolveKeyed(w, token, chain, scope) == Return(w, Closure(token, scope), chain)

\* A call f(key) of a function returned by ResolveKeyed.
KeyedFactory(w, f, key) ==
  LET token == f.args[1].cls
      scope == f.args[1].id
  IN
  IF keyedRegistrations[token][key] = NoKey
  THEN Throw(w, "KeyedInjectionFailed", <<>>)
  ELSE CreateInstance(w, [Token |-> token,
                          Implementation |-> keyedRegistrations[token][key],
                          Lifetime |-> "factory", Type |-> "keyed"],
                      scope)

\* Container.ResolveDependencyWithContext(token, context, scope)
\* ResolveDependencyWithContext constructing a scoped dependency when there is no
\* scope.
ResolveDependencyWithContext_Unscoped(w, token, chain, scope) ==
  LET registration == GetRegistration(token) IN
  IF HasMulti(token) THEN ResolveMulti(w, token, chain, scope)
  ELSE IF HasKeyed(token) THEN ResolveKeyed(w, token, chain, scope)
  ELSE IF registration = NoRegistration
  THEN Throw(w, "MissingRegistration", Append(chain, token))
  ELSE IF registration.Lifetime = "singleton" /\ w.singletons[token] # NoValue
  THEN Return(w, w.singletons[token], chain)
  ELSE IF registration.Lifetime = "singleton"
  THEN CacheSingleton(CreateInstanceWithContext(w, registration, chain, 0), token)
  ELSE IF registration.Lifetime = "scoped" /\ scope # 0
  THEN ScopeResolveWithContext(w, scope, token, chain)
  ELSE CreateInstanceWithContext(w, registration, chain, scope)

ResolveDependencyWithContext(w, token, chain, scope) ==
  LET registration == GetRegistration(token) IN
  IF HasMulti(token) THEN ResolveMulti(w, token, chain, scope)
  ELSE IF HasKeyed(token) THEN ResolveKeyed(w, token, chain, scope)
  ELSE IF registration = NoRegistration
  THEN Throw(w, "MissingRegistration", Append(chain, token))
  ELSE IF registration.Lifetime = "singleton" /\ w.singletons[token] # NoValue
  THEN Return(w, w.singletons[token], chain)
  ELSE IF registration.Lifetime = "singleton"
  THEN CacheSingleton(CreateInstanceWithContext(w, registration, chain, 0), token)
  ELSE IF registration.Lifetime = "scoped" /\ scope = 0
  THEN Throw(w, "LifetimeViolation", chain)
  ELSE IF registration.Lifetime = "scoped"
  THEN ScopeResolveWithContext(w, scope, token, chain)
  ELSE CreateInstanceWithContext(w, registration, chain, scope)

\* Scope.ResolveWithContext returning what Container.Resolve returned or threw: r.
\* Container.Resolve works on a context of its own: an error that carries no
\* chain leaves the chain of the scope's context, which nothing was pushed on.
FromContainer(r, chain) ==
  IF r.ok THEN Return(r.w, r.val, chain)
  ELSE IF r.err \in {"RAW:" \o Join(ThrownMessage[c]) : c \in Classes} \cup {MissingMethod}
  THEN Throw(r.w, r.err, chain)
  ELSE r

\* _scopedInstances.set(token, instance) and TrackInstance(instance) after a
\* successful construction r.
CacheScoped(r, s, token) ==
  IF r.ok
  THEN Return(TrackInstance([r.w EXCEPT !.scopes[s].scopedInstances[token] = r.val],
                            s, r.val),
              r.val, r.chain)
  ELSE r

\* A factory instance whose scope tracks it as if it were scoped.
TrackedFactory(r, s) ==
  IF r.ok THEN Return(TrackInstance(r.w, s, r.val), r.val, r.chain) ELSE r

\* Variants of Scope.ResolveWithContext with a plausible slip each: the scoped cache
\* is not consulted; the parent's cache is consulted before constructing; an
\* instance of a factory is tracked like a scoped one.
ScopeResolveWithContext_Variant(w, s, token, chain, slip) ==
  LET sc == w.scopes[s]
      registration == GetRegistration(token)
  IN
  IF sc.destroyed
  THEN Throw(w, "DestroyedScope", chain)
  ELSE IF sc.externalInstances[token] # NoValue
  THEN Return(w, sc.externalInstances[token], chain)
  ELSE IF slip # "uncached" /\ sc.scopedInstances[token] # NoValue
  THEN Return(w, sc.scopedInstances[token], chain)
  ELSE IF slip = "parent" /\ sc.parent # 0
          /\ w.scopes[sc.parent].scopedInstances[token] # NoValue
  THEN Return(w, w.scopes[sc.parent].scopedInstances[token], chain)
  ELSE IF slip # "orphan" /\ registration = NoRegistration /\ sc.parent # 0
  THEN ScopeResolveWithContext(w, sc.parent, token, chain)
  ELSE IF registration = NoRegistration
  THEN Throw(w, "MissingRegistration", Append(chain, token))
  ELSE IF registration.Lifetime = "singleton"
  THEN FromContainer(ContainerResolve(w, token), chain)
  ELSE IF registration.Lifetime = "scoped"
  THEN CacheScoped(CreateInstanceWithContext(w, registration, chain, s), s, token)
  ELSE IF slip = "tracked"
  THEN TrackedFactory(CreateInstanceWithContext(w, registration, chain, s), s)
  ELSE CreateInstanceWithContext(w, registration, chain, s)

ScopeResolveWithContext_Uncached(w, s, token, chain) ==
  ScopeResolveWithContext_Variant(w, s, token, chain, "uncached")

ScopeResolveWithContext_ParentCache(w, s, token, chain) ==
  ScopeResolveWithContext_Variant(w, s, token, chain, "parent")

ScopeResolveWithContext_TrackFactory(w, s, token, chain) ==
  ScopeResolveWithContext_Variant(w, s, token, chain, "tracked")

ScopeResolveWithContext_Orphan(w, s, token, chain) ==
  ScopeResolveWithContext_Variant(w, s, token, chain, "orphan")

\* Scope.ResolveWithContext(token, context) on scope s
ScopeResolveWithContext(w, s, token, chain) ==
  LET sc == w.scopes[s]
      registration == GetRegistration(token)
  IN
  IF sc.destroyed
  THEN Throw(w, "DestroyedScope", chain)
  ELSE IF sc.externalInstances[token] # NoValue
  THEN Return(w, sc.externalInstances[token], chain)
  ELSE IF sc.scopedInstances[token] # NoValue
  THEN Return(w, sc.scopedInstances[token], chain)
  ELSE IF registration = NoRegistration /\ sc.parent # 0
  THEN ScopeResolveWithContext(w, sc.parent, token, chain)
  ELSE IF registration = NoRegistration
  THEN Throw(w, "MissingRegistration", Append(chain, token))
  ELSE IF registration.Lifetime = "singleton"
  THEN FromContainer(ContainerResolve(w, token), chain)
  ELSE IF registration.Lifetime = "scoped"
  THEN CacheScoped(CreateInstanceWithContext(w, registration, chain, s), s, token)
  ELSE CreateInstanceWithContext(w, registration, chain, s)

\* Container.Resolve without the lookup in the singleton cache.
ContainerResolve_Uncached(w, token) ==
  LET registration == GetRegistration(token) IN
  IF ~Validate(w.validated).ok THEN Throw(w, "ValidationFailed", <<>>)
  ELSE IF HasKeyed(token) THEN ResolveKeyed([w EXCEPT !.validated = TRUE], token, <<>>, 0)
  ELSE IF registration = NoRegistration
  THEN Throw([w EXCEPT !.validated = TRUE], "MissingRegistration", <<token>>)
  ELSE IF registration.Lifetime # "singleton"
  THEN Throw([w EXCEPT !.validated = TRUE], "LifetimeViolation", <<>>)
  ELSE CacheSingleton(CreateInstanceWithContext([w EXCEPT !.validated = TRUE],
                                                registration, <<>>, 0),
                      token)

\* Container.Resolve(token).  A Validate that does not throw leaves the flag set.
ContainerResolve(w, token) ==
  LET registration == GetRegistration(token) IN
  IF ~Validate(w.validated).ok THEN Throw(w, "ValidationFailed", <<>>)
  ELSE IF HasKeyed(token) THEN ResolveKeyed([w EXCEPT !.validated = TRUE], token, <<>>, 0)
  ELSE IF w.singletons[token] # NoValue
  THEN Return([w EXCEPT !.validated = TRUE], w.singletons[token], <<>>)
  ELSE IF registration = NoRegistration
  THEN Throw([w EXCEPT !.validated = TRUE], "MissingRegistration", <<token>>)
  ELSE IF registration.Lifetime # "singleton"
  THEN Throw([w EXCEPT !.validated = TRUE], "LifetimeViolation", <<>>)
  ELSE CacheSingleton(CreateInstanceWithContext([w EXCEPT !.validated = TRUE],
                                                registration, <<>>, 0),
                      token)

(***************************************************************************)
(* Scope.Destroy                                                           *)
(***************************************************************************)
RECURSIVE UnregisterEach(_, _, _, _, _)
\* One of the three unregistration loops of Scope.Destroy, from position i of list.
UnregisterEach(w, s, list, kind, i) ==
  IF i > Len(list) THEN w
  ELSE
    LET tm == IF kind = "Tick" THEN UnregisterTickable(w.tickManager, list[i])
              ELSE IF kind = "FixedTick" THEN UnregisterFixedTickable(w.tickManager, list[i])
              ELSE UnregisterRenderTickable(w.tickManager, list[i])
    IN UnregisterEach([w EXCEPT !.tickManager = tm,
                                !.dlog = Append(@, Event("unregister", s, list[i], kind))],
                      s, list, kind, i + 1)

ProvideRuntimeIn(w, s, token, x) ==
  TrackInstance([w EXCEPT !.scopes[s].externalInstances[token] = x], s, x)

\* The body of Scope.CreateChildScope on a scope that is not destroyed.
CreateChildScopeIn(w, s) ==
  [w EXCEPT !.scopes = Append([@ EXCEPT ![s].childScopes = Append(@, Len(w.scopes) + 1)],
                              [NewScope(s) EXCEPT !.returned = TRUE])]

\* What the Destroy method of x does when Scope.Destroy of scope s calls it: the
\* methods of the application may call back into the scope that owns them.  An
\* error the call throws is caught by Scope.Destroy.
DestroyCallback(w, s, x) ==
  IF w.scopes[s].destroyed THEN w
  ELSE IF "DestroyProvides" \in Capabilities[x.cls] THEN ProvideRuntimeIn(w, s, "PT", BeaconOne)
  ELSE IF "DestroyResolves" \in Capabilities[x.cls]
  THEN ScopeResolveWithContext(w, s, "Beacon", <<>>).w
  ELSE IF "DestroyCreatesChild" \in Capabilities[x.cls] THEN CreateChildScopeIn(w, s)
  ELSE w

RECURSIVE DestroyEachFrom(_, _, _, _)
\* The loop over the destroyables from entry i: the call is logged, then the
\* callback runs.
DestroyEachFrom(w, s, list, i) ==
  IF i > Len(list) THEN w
  ELSE DestroyEachFrom(
         DestroyCallback(
           [w EXCEPT !.dlog = Append(@, Event("Destroy", s, list[i],
                                              IF DestroyThrows(list[i]) THEN "threw" ELSE "")),
                     !.scopes[s].destroyCalls =
                       Append(@, Event("Destroy", s, list[i],
                                       IF DestroyThrows(list[i]) THEN "threw" ELSE ""))],
           s, list[i]),
         s, list, i + 1)

\* Invocation of Destroy on every destroyable of scope s; an error thrown by a
\* callback is caught and the loop goes on.
DestroyEach(w, s) == DestroyEachFrom(w, s, w.scopes[s].destroyables, 1)

\* The clearing step of Scope.Destroy, reaching into the container's cache as well.
ClearCaches_DropSingletons(w, s) ==
  [w EXCEPT !.singletons = EmptyMap,
            !.scopes[s].scopedInstances = EmptyMap,
            !.scopes[s].externalInstances = EmptyMap,
            !.scopes[s].childScopes = <<>>,
            !.scopes[s].tickables = <<>>,
            !.scopes[s].fixedTickables = <<>>,
            !.scopes[s].renderTickables = <<>>,
            !.scopes[s].destroyables = <<>>,
            !.dlog = Append(@, Event("clear", s, NoValue, ""))]

ClearCaches(w, s) ==
  [w EXCEPT !.scopes[s].scopedInstances = EmptyMap,
            !.scopes[s].externalInstances = EmptyMap,
            !.scopes[s].childScopes = <<>>,
            !.scopes[s].tickables = <<>>,
            !.scopes[s].fixedTickables = <<>>,
            !.scopes[s].renderTickables = <<>>,
            !.scopes[s].destroyables = <<>>,
            !.dlog = Append(@, Event("clear", s, NoValue, ""))]

MarkDestroyed(w, s) ==
  [w EXCEPT !.scopes[s].destroyed = TRUE,
            !.dlog = Append(@, Event("destroyed", s, NoValue, ""))]

RECURSIVE ScopeDestroy(_, _)
RECURSIVE DestroyChildren(_, _, _)

DestroyChildren(w, children, i) ==
  IF i > Len(children) THEN w
  ELSE DestroyChildren(ScopeDestroy(w, children[i]), children, i + 1)

\* Scope.Destroy running the scope's own Destroy callbacks before its children's.
DestroySteps_OwnFirst(w, s) ==
  LET sc == w.scopes[s]
      w1 == UnregisterEach(w, s, sc.tickables, "Tick", 1)
      w2 == UnregisterEach(w1, s, sc.fixedTickables, "FixedTick", 1)
      w3 == UnregisterEach(w2, s, sc.renderTickables, "RenderTick", 1)
      w4 == DestroyEach(w3, s)
      w5 == DestroyChildren(w4, sc.childScopes, 1)
      w6 == ClearCaches(w5, s)
  IN MarkDestroyed(w6, s)

\* The steps of Scope.Destroy on a scope that is not destroyed yet.
DestroySteps(w, s) ==
  LET sc == w.scopes[s]
      w1 == UnregisterEach(w, s, sc.tickables, "Tick", 1)
      w2 == UnregisterEach(w1, s, sc.fixedTickables, "FixedTick", 1)
      w3 == UnregisterEach(w2, s, sc.renderTickables, "RenderTick", 1)
      w4 == DestroyChildren(w3, sc.childScopes, 1)
      w5 == DestroyEach(w4, s)
      w6 == ClearCaches(w5, s)
  IN MarkDestroyed(w6, s)

\* Scope.Destroy without the early return on a destroyed scope.
ScopeDestroy_Unguarded(w, s) == DestroySteps(w, s)

ScopeDestroy(w, s) ==
  IF w.scopes[s].destroyed THEN w ELSE DestroySteps(w, s)

\* What the callback ev of x does when the tick manager calls it: Tick of an
\* instance may destroy the scope the instance was built in.
TickCallback(w, ev, x) ==
  IF ev = "Tick" /\ "TickDestroys" \in Capabilities[x.cls]
     /\ \E b \in w.built : b.inst = x /\ b.scope # 0
  THEN ScopeDestroy(w, (CHOOSE b \in w.built : b.inst = x).scope)
  ELSE w

TickList(tm, ev) ==
  IF ev = "Tick" THEN tm.tickables
  ELSE IF ev = "FixedTick" THEN tm.fixedTickables
  ELSE tm.renderTickables

RECURSIVE TickEach(_, _, _, _, _)
\* A loop of TickAll or RenderTickAll from entry i of the list the tick manager
\* holds at that moment; calls are the callbacks invoked so far.
TickEach(w, ev, i, deltaTime, calls) ==
  IF i > Len(TickList(w.tickManager, ev)) THEN [w |-> w, calls |-> calls]
  ELSE TickEach(TickCallback(w, ev, TickList(w.tickManager, ev)[i]), ev, i + 1, deltaTime,
                Append(calls, Callback(ev, TickList(w.tickManager, ev)[i], deltaTime)))

\* TickAll with the fixed tickables called before the tickables.
TickAll_FixedFirst(w, deltaTime) ==
  TickEach(TickEach(w, "FixedTick", 1, deltaTime, <<>>).w, "Tick", 1, deltaTime,
           TickEach(w, "FixedTick", 1, deltaTime, <<>>).calls)

\* The callbacks of one Heartbeat signal, in order: Tick of every tickable, then
\* FixedTick of every fixed tickable.
TickAll(w, deltaTime) ==
  TickEach(TickEach(w, "Tick", 1, deltaTime, <<>>).w, "FixedTick", 1, deltaTime,
           TickEach(w, "Tick", 1, deltaTime, <<>>).calls)

RenderTickAll(w, deltaTime) == TickEach(w, "RenderTick", 1, deltaTime, <<>>)

(***************************************************************************)
(* Remaining operations of Container and Scope                             *)
(***************************************************************************)
RECURSIVE UseRegistrations(_, _, _)
\* The registration loop without the test of _registrations.has.
UseRegistrations_Unchecked(regs, list, i) ==
  IF i > Len(list) THEN [regs |-> regs, ok |-> TRUE]
  ELSE UseRegistrations(Append(regs, list[i]), list, i + 1)

\* The registration loop of Container.Use from record i of the list: the
\* registrations afterwards, and whether DuplicateRegistration was thrown.
UseRegistrations(regs, list, i) ==
  IF i > Len(list) THEN [regs |-> regs, ok |-> TRUE]
  ELSE IF Has(regs, list[i].Token) THEN [regs |-> regs, ok |-> FALSE]
  ELSE UseRegistrations(Append(regs, list[i]), list, i + 1)

RECURSIVE UseMultiRegistrations(_, _, _)
\* The multi loop of Container.Use: RegisterMulti of every implementation of
\* every record, in order.
UseMultiRegistrations(multi, list, i) ==
  IF i > Len(list) THEN multi
  ELSE UseMultiRegistrations([multi EXCEPT ![list[i].token] = @ \o list[i].implementations],
                             list, i + 1)

RECURSIVE UseKeyedRegistrations(_, _, _)
\* The keyed loop of Container.Use: RegisterKeyed of every record, in order.
UseKeyedRegistrations(keyed, list, i) ==
  IF i > Len(list) THEN keyed
  ELSE UseKeyedRegistrations([keyed EXCEPT ![list[i].token][list[i].key] =
                                             list[i].implementation],
                             list, i + 1)

\* The orders in which a table holding the keys of set S can be iterated.
IterationOrders(S) ==
  {o \in [1..Cardinality(S) -> S] : \A k \in S : \E i \in DOMAIN o : o[i] = k}

\* The tokens for which the loop of Container.Launch calls Resolve: the others
\* are passed over without effect.
LaunchKeys ==
  {registrations[i].Token : i \in {j \in 1..Len(registrations) :
      /\ registrations[j].Lifetime = "singleton"
      /\ "Start" \in Capabilities[registrations[j].Implementation]}}

RECURSIVE LaunchFrom(_, _, _)
\* One turn of the loop of Container.Launch: r is the outcome of Resolve(token).
\* dlog collects the calls the loop makes.
LaunchNext(r, order, i) ==
  IF r.ok
  THEN LaunchFrom([r.w EXCEPT !.dlog = Append(@, Event("Resolve", 0, r.val, order[i]))],
                  order, i + 1)
  ELSE r

\* The loop of Container.Launch over _registrations, a table that is iterated in
\* the order given, from position i.
LaunchFrom(w, order, i) ==
  IF i > Len(order) THEN Return(w, NoValue, <<>>)
  ELSE LaunchNext(ContainerResolve(w, order[i]), order, i)

\* Scope.ProvideRuntime(token, instance) on a scope that is not destroyed.
RECURSIVE ProvideExternals(_, _, _, _)
\* The loop of Container.CreateScope over the externals of the scope module.
ProvideExternals(w, s, externals, i) ==
  IF i > Len(externals) THEN w
  ELSE ProvideExternals(ProvideRuntimeIn(w, s, externals[i][1], externals[i][2]),
                        s, externals, i + 1)

Present(m) == {k \in Keys : m[k] # NoValue}

\* The Start calls of Scope.StartAll on scope record sc, when the scoped
\* instances are iterated in order o1 and the externals in order o2.
StartCalls(s, sc, o1, o2) ==
  LET allInstances == [i \in 1..Len(o1) |-> sc.scopedInstances[o1[i]]]
                      \o [i \in 1..Len(o2) |-> sc.externalInstances[o2[i]]]
      startable == SelectSeq(allInstances, IsStartable)
  IN [i \in 1..Len(startable) |->
        Event("Start", s, startable[i], IF StartThrows(startable[i]) THEN "threw" ELSE "")]

\* Every sequence of Start calls StartAll can make: the iteration order of a
\* table is not specified.
StartAllCalls(s, sc) ==
  {StartCalls(s, sc, o1, o2) : o1 \in IterationOrders(Present(sc.scopedInstances)),
                              o2 \in IterationOrders(Present(sc.externalInstances))}

\* Scope.DebugServices: the TotalServices of the snapshot.
TotalServices(sc) ==
  Cardinality({k \in Keys : sc.scopedInstances[k] # NoValue})
  + Cardinality({k \in Keys : sc.externalInstances[k] # NoValue})

(***************************************************************************)
(* The state after construction, and one action per call of the            *)
(* application or signal of the host.                                      *)
(***************************************************************************)
Call(op, s, key, ok, err, val, chain, calls, num) ==
  [op |-> op, scope |-> s, key |-> key, ok |-> ok, err |-> err, val |-> val,
   chain |-> chain, calls |-> calls, num |-> num]

Outcome(op, s, key, r) == Call(op, s, key, r.ok, r.err, r.val, r.chain, <<>>, 0)

Init ==
  /\ registrations = <<>>
  /\ multiRegistrations = [t \in Tokens |-> <<>>]
  /\ keyedRegistrations = [t \in Tokens |-> [k \in KeyedKeys |-> NoKey]]
  /\ singletons = EmptyMap
  /\ validated = FALSE
  /\ scopes = <<>>
  /\ tickManager = NewTickManager
  /\ isClient \in BOOLEAN
  /\ nextId = 1
  /\ built = {}
  /\ provides = 0
  /\ functions = {}
  /\ last = Call("new", 0, NoKey, TRUE, "", NoValue, <<>>, <<>>, 0)

\* A call that constructs objects is explored while fewer than MaxInstances
\* objects have been constructed before it.
WithinBounds(w) == w.nextId = nextId \/ nextId <= MaxInstances

\* The variables a resolve or a destroy may change take their values from w.
Commit(w) ==
  /\ validated' = w.validated
  /\ singletons' = w.singletons
  /\ scopes' = w.scopes
  /\ tickManager' = w.tickManager
  /\ nextId' = w.nextId
  /\ built' = w.built

\* The end of Container.Use: r is the outcome of the registration loop.  When it
\* threw, the multi loop, the keyed loop and the reset of the flag are not reached.
Used(module, r) ==
  /\ registrations' = r.regs
  /\ multiRegistrations' =
       IF r.ok THEN UseMultiRegistrations(multiRegistrations, module.multiRegistrations, 1)
       ELSE multiRegistrations
  /\ keyedRegistrations' =
       IF r.ok THEN UseKeyedRegistrations(keyedRegistrations, module.keyedRegistrations, 1)
       ELSE keyedRegistrations
  /\ validated' = IF r.ok THEN FALSE ELSE validated
  /\ last' = Call("Use", 0, NoKey, r.ok, IF r.ok THEN "" ELSE "DuplicateRegistration",
                  NoValue, <<>>, <<>>, 0)

Use(module) ==
  /\ Used(module, UseRegistrations(registrations, module.registrations, 1))
  /\ UNCHANGED <<singletons, scopes, tickManager, isClient, functions, nextId, built, provides>>

\* The end of a call with outcome r: the state and the observation it leaves.
Finish(op, s, key, r) ==
  /\ WithinBounds(r.w)
  /\ Commit(r.w)
  /\ functions' = IF r.ok /\ r.val.cls = "Function" THEN functions \cup {r.val} ELSE functions
  /\ last' = Outcome(op, s, key, r)

\* The end of Container.Launch with outcome r, and the calls its loop made.
Launched(r) ==
  /\ WithinBounds(r.w)
  /\ Commit(r.w)
  /\ last' = Call("Launch", 0, NoKey, r.ok, r.err, r.val, r.chain, r.w.dlog, 0)

Launch ==
  /\ \E order \in IterationOrders(LaunchKeys) :
       Launched(IF Validate(validated).ok
                THEN LaunchFrom([World EXCEPT !.validated = TRUE], order, 1)
                ELSE Throw(World, "ValidationFailed", <<>>))
  /\ UNCHANGED <<registrations, multiRegistrations, keyedRegistrations, isClient,
                 functions, provides>>

Resolve(token) ==
  /\ Finish("Container.Resolve", 0, token, ContainerResolve(World, token))
  /\ UNCHANGED <<registrations, multiRegistrations, keyedRegistrations, isClient, provides>>

\* The end of CreateScope for a module with a root: r is the outcome of resolving
\* the root in the new scope s.  StartAll runs when the resolve succeeded; when it
\* threw, the scope is not returned.
CreateScopeRoot(r, s, root) ==
  /\ WithinBounds(r.w)
  /\ IF r.ok
     THEN \E calls \in StartAllCalls(s, r.w.scopes[s]) :
            /\ Commit([r.w EXCEPT !.scopes[s].returned = TRUE])
            /\ last' = Call("CreateScope", s, root, TRUE, "", r.val, <<>>, calls, 0)
     ELSE /\ Commit(r.w)
          /\ last' = Outcome("CreateScope", s, root, r)

\* CreateScope after the externals of the module were provided to the new scope s.
CreateScopeProvided(w, s, root) ==
  IF root = NoKey
  THEN /\ Commit([w EXCEPT !.scopes[s].returned = TRUE])
       /\ last' = Call("CreateScope", s, NoKey, TRUE, "", NoValue, <<>>, <<>>, 0)
  ELSE CreateScopeRoot(ScopeResolveWithContext(w, s, root, <<>>), s, root)

CreateScope(module) ==
  /\ Len(scopes) < MaxScopes
  /\ CreateScopeProvided(ProvideExternals([World EXCEPT !.scopes = Append(@, NewScope(0))],
                                          Len(scopes) + 1, module.externals, 1),
                         Len(scopes) + 1, module.root)
  /\ UNCHANGED <<registrations, multiRegistrations, keyedRegistrations, isClient,
                 functions, provides>>

IsScope(s) == s \in 1..Len(scopes) /\ scopes[s].returned

ScopeResolve(s, token) ==
  /\ IsScope(s)
  /\ Finish("Scope.Resolve", s, token, ScopeResolveWithContext(World, s, token, <<>>))
  /\ UNCHANGED <<registrations, multiRegistrations, keyedRegistrations, isClient, provides>>

\* Scope.ProvideRuntime without the check of the destroyed flag.
ProvideRuntime_Unchecked(s, token, x) ==
  /\ IsScope(s)
  /\ provides < MaxProvides
  /\ Commit(ProvideRuntimeIn(World, s, token, x))
  /\ provides' = provides + 1
  /\ last' = Call("ProvideRuntime", s, token, TRUE, "", x, <<>>, <<>>, 0)
  /\ UNCHANGED <<registrations, multiRegistrations, keyedRegistrations, isClient, functions>>

ProvideRuntime(s, token, x) ==
  /\ IsScope(s)
  /\ scopes[s].destroyed \/ provides < MaxProvides
  /\ IF scopes[s].destroyed
     THEN /\ last' = Call("ProvideRuntime", s, token, FALSE, "DestroyedScope", NoValue,
                          <<>>, <<>>, 0)
          /\ UNCHANGED <<validated, singletons, scopes, tickManager, nextId, built, provides>>
     ELSE /\ Commit(ProvideRuntimeIn(World, s, token, x))
          /\ provides' = provides + 1
          /\ last' = Call("ProvideRuntime", s, token, TRUE, "", x, <<>>, <<>>, 0)
  /\ UNCHANGED <<registrations, multiRegistrations, keyedRegistrations, isClient, functions>>

CreateChildScope(s) ==
  /\ IsScope(s)
  /\ scopes[s].destroyed \/ Len(scopes) < MaxScopes
  /\ IF scopes[s].destroyed
     THEN /\ last' = Call("CreateChildScope", s, NoKey, FALSE, "DestroyedScope", NoValue,
                          <<>>, <<>>, 0)
          /\ UNCHANGED scopes
     ELSE LET child == Len(scopes) + 1 IN
          /\ scopes' = Append([scopes EXCEPT ![s].childScopes = Append(@, child)],
                              [NewScope(s) EXCEPT !.returned = TRUE])
          /\ last' = Call("CreateChildScope", s, NoKey, TRUE, "", NoValue, <<>>, <<>>, child)
  /\ UNCHANGED <<registrations, multiRegistrations, keyedRegistrations, singletons,
                 validated, tickManager, isClient, functions, nextId,
                 built, provides>>

\* The end of Scope.Destroy: w is the world it leaves, with the steps it executed.
Destroyed(w, s) ==
  /\ Commit(w)
  /\ last' = Call("Destroy", s, NoKey, TRUE, "", NoValue, <<>>, w.dlog, 0)

Destroy(s) ==
  /\ IsScope(s)
  /\ Destroyed(ScopeDestroy(World, s), s)
  /\ UNCHANGED <<registrations, multiRegistrations, keyedRegistrations, isClient,
                 functions, provides>>

StartAll(s) ==
  /\ IsScope(s)
  /\ \E calls \in StartAllCalls(s, scopes[s]) :
       last' = Call("StartAll", s, NoKey, TRUE, "", NoValue, <<>>, calls, 0)
  /\ UNCHANGED <<registrations, multiRegistrations, keyedRegistrations, singletons,
                 validated, scopes, tickManager, isClient, functions,
                 nextId, built, provides>>

DebugServices(s) ==
  /\ IsScope(s)
  /\ last' = Call("DebugServices", s, NoKey, TRUE, "", NoValue, <<>>, <<>>,
                  TotalServices(scopes[s]))
  /\ UNCHANGED <<registrations, multiRegistrations, keyedRegistrations, singletons,
                 validated, scopes, tickManager, isClient, functions,
                 nextId, built, provides>>

GetScopeId(s) ==
  /\ IsScope(s)
  /\ last' = Call("GetScopeId", s, NoKey, TRUE, "", NoValue, <<>>, <<>>, s)
  /\ UNCHANGED <<registrations, multiRegistrations, keyedRegistrations, singletons,
                 validated, scopes, tickManager, isClient, functions,
                 nextId, built, provides>>

\* The end of a signal callback: r.w is the world the callbacks leave, r.calls
\* the callbacks invoked.
Ticked(op, deltaTime, r) ==
  /\ Commit(r.w)
  /\ last' = Call(op, 0, NoKey, TRUE, "", NoValue, <<>>, r.calls, deltaTime)

\* The host fires Heartbeat: the callback connected by EnsureHeartbeatConnection.
Heartbeat(deltaTime) ==
  /\ tickManager.connected.Heartbeat > 0
  /\ Ticked("Heartbeat", deltaTime,
            IF tickManager.paused THEN [w |-> World, calls |-> <<>>]
            ELSE TickAll(World, deltaTime))
  /\ UNCHANGED <<registrations, multiRegistrations, keyedRegistrations, isClient,
                 functions, provides>>

\* The host fires RenderStepped: the callback connected by EnsureRenderSteppedConnection.
RenderStepped(deltaTime) ==
  /\ tickManager.connected.RenderStepped > 0
  /\ Ticked("RenderStepped", deltaTime,
            IF tickManager.paused THEN [w |-> World, calls |-> <<>>]
            ELSE RenderTickAll(World, deltaTime))
  /\ UNCHANGED <<registrations, multiRegistrations, keyedRegistrations, isClient,
                 functions, provides>>

\* The application calls a method of the dispatcher it got from GetTickManager.
TickManagerPause ==
  /\ tickManager' = Pause(tickManager)
  /\ last' = Call("TickManager.Pause", 0, NoKey, TRUE, "", NoValue, <<>>, <<>>, 0)
  /\ UNCHANGED <<registrations, multiRegistrations, keyedRegistrations, singletons, validated,
                 scopes, isClient, functions, nextId, built, provides>>

TickManagerResume ==
  /\ tickManager' = Resume(tickManager)
  /\ last' = Call("TickManager.Resume", 0, NoKey, TRUE, "", NoValue, <<>>, <<>>, 0)
  /\ UNCHANGED <<registrations, multiRegistrations, keyedRegistrations, singletons, validated,
                 scopes, isClient, functions, nextId, built, provides>>

TickManagerDestroy ==
  /\ tickManager' = DestroyTickManager(tickManager)
  /\ last' = Call("TickManager.Destroy", 0, NoKey, TRUE, "", NoValue, <<>>, <<>>, 0)
  /\ UNCHANGED <<registrations, multiRegistrations, keyedRegistrations, singletons, validated,
                 scopes, isClient, functions, nextId, built, provides>>

\* Container.Validate called by the application.
ContainerValidate ==
  /\ validated' = Validate(validated).validated
  /\ last' = Call("Validate", 0, NoKey, Validate(validated).ok,
                  IF Validate(validated).ok THEN "" ELSE "ValidationFailed",
                  NoValue, <<>>, <<>>, Validate(validated).examined)
  /\ UNCHANGED <<registrations, multiRegistrations, keyedRegistrations, singletons, scopes,
                 tickManager, isClient, functions, nextId, built, provides>>

\* The functions returned by ResolveKeyed so far: to the application, by a
\* resolve, or to a service, as a constructor argument.
Functions ==
  functions \cup {v \in UNION {Range(b.inst.args) : b \in built} : v.cls = "Function"}

\* The application calls f(key) on a function it obtained from ResolveKeyed.
CallKeyedFactory(f, key) ==
  /\ f \in Functions
  /\ Finish("KeyedFactory", f.args[1].id, key, KeyedFactory(World, f, key))
  /\ UNCHANGED <<registrations, multiRegistrations, keyedRegistrations, isClient, provides>>

Next ==
  \/ \E module \in Modules : Use(module)
  \/ Launch
  \/ \E token \in ContainerKeys : Resolve(token)
  \/ \E module \in ScopeModules : CreateScope(module)
  \/ \E s \in 1..MaxScopes, token \in ScopeKeys : ScopeResolve(s, token)
  \/ \E s \in 1..MaxScopes, token \in ProvideKeys, x \in ExternalValues : ProvideRuntime(s, token, x)
  \/ \E s \in 1..MaxScopes : CreateChildScope(s)
  \/ \E s \in 1..MaxScopes : Destroy(s)
  \/ \E s \in 1..MaxScopes : StartAll(s)
  \/ \E s \in 1..MaxScopes : DebugServices(s)
  \/ \E s \in 1..MaxScopes : GetScopeId(s)
  \/ \E deltaTime \in DeltaTimes : Heartbeat(deltaTime)
  \/ \E deltaTime \in DeltaTimes : RenderStepped(deltaTime)

Spec == Init /\ [][Next]_vars

\* The second application, on a rendering host.
WiringInit == Init /\ isClient

WiringNext ==
  \/ \E module \in WiringModules : Use(module)
  \/ ContainerValidate
  \/ Launch
  \/ \E token \in WiringContainerKeys : Resolve(token)
  \/ CreateScope(PlainScope)
  \/ \E s \in 1..MaxScopes, token \in WiringScopeKeys : ScopeResolve(s, token)
  \/ \E s \in 0..MaxScopes, key \in KeyedKeys :
       \E token \in Tokens : CallKeyedFactory(Closure(token, s), key)

WiringSpec == WiringInit /\ [][WiringNext]_vars

\* The second application again, with the module that registers the token.
ValidationNext ==
  \/ \E module \in ValidationModules : Use(module)
  \/ ContainerValidate
  \/ Launch
  \/ \E token \in ValidationContainerKeys : Resolve(token)

ValidationSpec == WiringInit /\ [][ValidationNext]_vars

\* The third application.
CycleNext ==
  \/ \E module \in CycleModules : Use(module)
  \/ \E token \in CycleContainerKeys : Resolve(token)
  \/ CreateScope(PlainScope)
  \/ \E s \in 1..MaxScopes : CreateChildScope(s)
  \/ \E s \in 1..MaxScopes, token \in CycleScopeKeys : ScopeResolve(s, token)

CycleSpec == WiringInit /\ [][CycleNext]_vars

(***************************************************************************)
(* The resolves that fail: a key that is not registered, a cycle, a scoped *)
(* service asked of the container, a constructor that throws and a service *)
(* that ValidateLifecycleInterfaces refuses, next to services that resolve.*)
(***************************************************************************)
FaultyNext ==
  \/ \E module \in {FaultyModule, CycleModule("scoped"), DiamondModule} : Use(module)
  \/ \E token \in {"Faulty", "Broken", "A", "Cache"} : Resolve(token)
  \/ Launch
  \/ CreateScope(PlainScope)
  \/ \E s \in 1..MaxScopes : CreateChildScope(s)
  \/ \E s \in 1..MaxScopes, token \in {"Cache", "Faulty", "Broken", "A", "Stats", "Report"} :
       ScopeResolve(s, token)
  \/ \E s \in 1..MaxScopes, x \in ExternalValues : ProvideRuntime(s, "Stats", x)

FaultySpec == WiringInit /\ [][FaultyNext]_vars

\* The fourth application.
LifetimeNext ==
  \/ Use(LifetimeModule)
  \/ \E token \in LifetimeContainerKeys : Resolve(token)
  \/ CreateScope(PlainScope)
  \/ \E s \in 1..MaxScopes : ProvideRuntime(s, "Logger", PlayerOne)
  \/ \E s \in 1..MaxScopes, token \in LifetimeScopeKeys : ScopeResolve(s, token)
  \/ \E s \in 0..MaxScopes, key \in KeyedKeys : CallKeyedFactory(Closure("Weapon", s), key)

LifetimeSpec == WiringInit /\ [][LifetimeNext]_vars

\* The first application again, with scope modules that declare a root.
StartNext ==
  \/ Use(GameModule)
  \/ \E module \in StartScopes : CreateScope(module)
  \/ \E s \in 1..MaxScopes : ScopeResolve(s, "Stats")
  \/ \E s \in 1..MaxScopes : ProvideRuntime(s, "PT", BeaconOne)
  \/ \E s \in 1..MaxScopes : StartAll(s)
  \/ \E s \in 1..MaxScopes : Destroy(s)

StartSpec == Init /\ [][StartNext]_vars

\* The first application again, with the calls on the dispatcher.
TickNext ==
  \/ Use(GameModule)
  \/ \E module \in ScopeModules : CreateScope(module)
  \/ \E s \in 1..MaxScopes, token \in TickScopeKeys : ScopeResolve(s, token)
  \/ \E s \in 1..MaxScopes, token \in ProvideKeys, x \in ExternalValues : ProvideRuntime(s, token, x)
  \/ \E s \in 1..MaxScopes : Destroy(s)
  \/ \E deltaTime \in DeltaTimes : Heartbeat(deltaTime)
  \/ \E deltaTime \in DeltaTimes : RenderStepped(deltaTime)
  \/ TickManagerPause
  \/ TickManagerResume
  \/ TickManagerDestroy

TickSpec == Init /\ [][TickNext]_vars

\* The fifth application.
ReentryNext ==
  \/ Use(ReentryModule)
  \/ CreateScope(PlainScope)
  \/ \E s \in 1..MaxScopes : CreateChildScope(s)
  \/ \E s \in 1..MaxScopes, token \in {"Provider", "Resolver", "Spawner", "Beacon", "Reaper"} :
       ScopeResolve(s, token)
  \/ \E s \in 1..MaxScopes : Destroy(s)
  \/ \E deltaTime \in DeltaTimes : Heartbeat(deltaTime)

ReentrySpec == Init /\ [][ReentryNext]_vars

(***************************************************************************)
(* Vocabulary of the properties                                            *)
(***************************************************************************)
ProgramVars == <<registrations, multiRegistrations, keyedRegistrations, singletons,
                 validated, scopes, tickManager, isClient,
                 nextId, built, provides>>

KeysOfLifetime(lifetime) == {k \in Keys : GetRegistration(k).Lifetime = lifetime}
SingletonKeys == KeysOfLifetime("singleton")
ScopedKeys == KeysOfLifetime("scoped")
FactoryKeys == KeysOfLifetime("factory")

ScopeIds == 1..Len(scopes)
LiveScopes == {s \in ScopeIds : scopes[s].returned /\ ~scopes[s].destroyed}

\* The objects constructed for key k under a registration of the given lifetime.
InstancesOf(k, lifetime) ==
  {b.inst : b \in {c \in built : c.key = k /\ c.lifetime = lifetime}}
\* The same, restricted to the constructions made with s as the resolution scope.
InstancesIn(s, k, lifetime) ==
  {b.inst : b \in {c \in built : c.key = k /\ c.lifetime = lifetime /\ c.scope = s}}
\* The constructor arguments received for dependency key k by the objects of B.
Injected(B, k) ==
  UNION {{b.inst.args[i] : i \in {j \in 1..Len(b.inst.args) :
                                    DependencyTokens[b.inst.cls][j] = k}} : b \in B}

\* The latest call is a successful resolve of k: Container.Resolve, Scope.Resolve,
\* or the resolve of the root made by CreateScope.
Resolved(k) ==
  /\ last.ok
  /\ last.key = k
  /\ last.op \in {"Container.Resolve", "Scope.Resolve", "CreateScope"}
ResolvedIn(s, k) == Resolved(k) /\ last.scope = s /\ last.op # "Container.Resolve"

HasExternal(s, k) == scopes[s].externalInstances[k] # NoValue

\* Everything currently held by a cache, a tracking list or the tick manager.
Held(w) ==
  {w.singletons[k] : k \in Keys}
  \cup UNION {{w.scopes[s].scopedInstances[k] : k \in Keys} : s \in 1..Len(w.scopes)}
  \cup UNION {Range(w.scopes[s].destroyables) \cup Range(w.scopes[s].tickables)
              \cup Range(w.scopes[s].fixedTickables) \cup Range(w.scopes[s].renderTickables)
              : s \in 1..Len(w.scopes)}
  \cup Range(w.tickManager.tickables) \cup Range(w.tickManager.fixedTickables)
  \cup Range(w.tickManager.renderTickables)

(***************************************************************************)
(* C1.  Claim as stated: for every key registered as singleton at most one *)
(* instance is ever constructed, and every resolve of the key - from the   *)
(* container, from any scope, or as a constructor dependency - returns     *)
(* that instance.                                                          *)
(***************************************************************************)
C1_EveryResolveReturnsTheSingleton ==
  \A k \in SingletonKeys :
    /\ Cardinality(InstancesOf(k, "singleton")) <= 1
    /\ Resolved(k) => InstancesOf(k, "singleton") = {last.val}
    /\ Injected(built, k) \subseteq InstancesOf(k, "singleton")

(***************************************************************************)
(* C1, amended.  At most one instance is ever constructed for a singleton  *)
(* key; every resolve of the key from the container or as a constructor    *)
(* dependency returns it, and so does every Scope.Resolve - except from a  *)
(* scope that holds an external for the key, which returns the external.   *)
(***************************************************************************)
C1_SingletonUnlessExternal ==
  \A k \in SingletonKeys :
    /\ Cardinality(InstancesOf(k, "singleton")) <= 1
    /\ Resolved(k) =>
         IF last.op # "Container.Resolve" /\ HasExternal(last.scope, k)
         THEN last.val = scopes[last.scope].externalInstances[k]
         ELSE InstancesOf(k, "singleton") = {last.val} /\ singletons[k] = last.val
    /\ Injected(built, k) \subseteq InstancesOf(k, "singleton")

\* Scope.Resolve of a singleton key returns the instance that was constructed
\* before as a dependency of a scoped service.
C1_Witness ==
  /\ last.op = "Scope.Resolve"
  /\ Resolved("Logger")
  /\ ~HasExternal(last.scope, "Logger")
  /\ last.val \in InstancesOf("Logger", "singleton")
  /\ last.val \in Injected(built, "Logger")

(***************************************************************************)
(* C2.  Claim as stated: for every scope that is not destroyed and every   *)
(* key registered as scoped, at most one instance has been constructed for *)
(* the scope; a resolve of the key in the scope, direct or as a dependency *)
(* of a service constructed in the scope, yields that instance (when the   *)
(* scope holds an external for the key, the lookup yields the external and *)
(* nothing is constructed).                                                *)
(***************************************************************************)
C2_OneScopedInstancePerScope ==
  \A s \in ScopeIds : \A k \in ScopedKeys :
    ~scopes[s].destroyed =>
      /\ Cardinality(InstancesIn(s, k, "scoped")) <= 1
      /\ InstancesIn(s, k, "scoped") \subseteq {scopes[s].scopedInstances[k]}
      /\ (ResolvedIn(s, k) /\ ~HasExternal(s, k)) =>
           InstancesIn(s, k, "scoped") = {last.val}
      /\ (scopes[s].scopedInstances[k] # NoValue /\ ~HasExternal(s, k)) =>
           LET r == ScopeResolveWithContext(World, s, k, <<>>) IN
           r.ok /\ r.val = scopes[s].scopedInstances[k] /\ r.w.built = built
      /\ Injected({b \in built : b.scope = s}, k)
           \subseteq (InstancesIn(s, k, "scoped") \cup ExternalValues)

(***************************************************************************)
(* C2, amended.  For every scope that is not destroyed and every key       *)
(* registered as scoped, at most one instance that the lifecycle check     *)
(* accepts has been constructed for the scope; it is the one the scope has *)
(* cached, and a resolve of the key in the scope, direct or as a           *)
(* dependency of a service constructed in the scope, yields it (or the     *)
(* external the scope holds for the key).  An instance with a Warmup       *)
(* method is constructed at every resolve of its scoped key, refused, and  *)
(* held nowhere.                                                           *)
(***************************************************************************)
\* The instances constructed for key k in scope s that ValidateLifecycleInterfaces
\* let through.
AcceptedIn(s, k) ==
  {x \in InstancesIn(s, k, "scoped") : ValidateLifecycleInterfaces(x, "scoped")}

C2_OneScopedInstanceKeptPerScope ==
  \A s \in ScopeIds : \A k \in ScopedKeys :
    ~scopes[s].destroyed =>
      /\ Cardinality(AcceptedIn(s, k)) <= 1
      /\ AcceptedIn(s, k) \subseteq {scopes[s].scopedInstances[k]}
      /\ (InstancesIn(s, k, "scoped") \ AcceptedIn(s, k)) \cap Held(World) = {}
      /\ (ResolvedIn(s, k) /\ ~HasExternal(s, k)) => AcceptedIn(s, k) = {last.val}
      /\ (scopes[s].scopedInstances[k] # NoValue /\ ~HasExternal(s, k)) =>
           LET r == ScopeResolveWithContext(World, s, k, <<>>) IN
           r.ok /\ r.val = scopes[s].scopedInstances[k] /\ r.w.built = built
      /\ Injected({b \in built : b.scope = s}, k)
           \subseteq (AcceptedIn(s, k) \cup ExternalValues)

\* A direct resolve of Stats returns the instance that the Report cached in the
\* same scope was constructed with, in a scope in which a Cache was constructed
\* and refused.
C2_Witness ==
  /\ last.op = "Scope.Resolve"
  /\ Resolved("Stats")
  /\ last.val \in AcceptedIn(last.scope, "Stats")
  /\ scopes[last.scope].scopedInstances["Report"] # NoValue
  /\ scopes[last.scope].scopedInstances["Report"].args[1] = last.val
  /\ InstancesIn(last.scope, "Cache", "scoped") # {}
  /\ scopes[last.scope].scopedInstances["Cache"] = NoValue

(***************************************************************************)
(* C3.  Claim as stated: for two distinct scopes and a scoped key,         *)
(* resolving the key in the one and in the other gives distinct instances; *)
(* a child scope that has not resolved the key constructs and caches its   *)
(* own instance even when its parent has the key cached.                   *)
(***************************************************************************)
ResolveInBoth(s1, s2, k) ==
  LET r1 == ScopeResolveWithContext(World, s1, k, <<>>)
      r2 == ScopeResolveWithContext(r1.w, s2, k, <<>>)
  IN [ok |-> r1.ok /\ r2.ok, first |-> r1.val, second |-> r2.val]

ChildBuildsItsOwn(s, k) ==
  LET r == ScopeResolveWithContext(World, s, k, <<>>) IN
  r.ok =>
    /\ r.val \in {b.inst : b \in r.w.built \ built}
    /\ r.w.scopes[s].scopedInstances[k] = r.val
    /\ r.val # scopes[scopes[s].parent].scopedInstances[k]

C3_ScopesNeverShare ==
  \A k \in ScopedKeys : \A s1 \in LiveScopes : \A s2 \in LiveScopes \ {s1} :
    /\ LET r == ResolveInBoth(s1, s2, k) IN r.ok => r.first # r.second
    /\ (scopes[s2].parent = s1 /\ scopes[s1].scopedInstances[k] # NoValue
        /\ scopes[s2].scopedInstances[k] = NoValue) => ChildBuildsItsOwn(s2, k)

(***************************************************************************)
(* C3, amended.  The same, for a scoped key for which neither of the two   *)
(* scopes holds an external: an external provided for the key is returned  *)
(* as it is, also when another scope returns the same object.              *)
(***************************************************************************)
C3_ScopesNeverShareScopedInstances ==
  \A k \in ScopedKeys : \A s1 \in LiveScopes : \A s2 \in LiveScopes \ {s1} :
    (~HasExternal(s1, k) /\ ~HasExternal(s2, k)) =>
      /\ LET r == ResolveInBoth(s1, s2, k) IN r.ok => r.first # r.second
      /\ (scopes[s2].parent = s1 /\ scopes[s1].scopedInstances[k] # NoValue
          /\ scopes[s2].scopedInstances[k] = NoValue) => ChildBuildsItsOwn(s2, k)

\* A child scope has just resolved Stats and got an instance of its own while
\* its parent has another one cached.
C3_Witness ==
  /\ last.op = "Scope.Resolve"
  /\ Resolved("Stats")
  /\ last.scope \in LiveScopes
  /\ scopes[last.scope].parent \in LiveScopes
  /\ scopes[last.scope].scopedInstances["Stats"] = last.val
  /\ scopes[scopes[last.scope].parent].scopedInstances["Stats"] # NoValue
  /\ scopes[scopes[last.scope].parent].scopedInstances["Stats"] # last.val
  /\ ~HasExternal(last.scope, "Stats")
  /\ ~HasExternal(scopes[last.scope].parent, "Stats")

(***************************************************************************)
(* C4.  Claim as stated: every resolve of a key registered as factory,     *)
(* direct or as a constructor dependency, constructs a new instance        *)
(* distinct from all others, and the instance is never cached, never       *)
(* tracked by a scope and never registered with the tick dispatcher.       *)
(***************************************************************************)
\* Scope.Resolve(k) in s constructs a new object for k and returns it.
ResolveBuildsNew(s, k) ==
  LET r == ScopeResolveWithContext(World, s, k, <<>>) IN
  r.ok =>
    /\ r.val \in {b.inst : b \in {c \in r.w.built \ built : c.key = k}}
    /\ r.val \notin {b.inst : b \in built}
    /\ r.val \notin Held(r.w)

\* The factory objects handed out so far were all constructed, each is handed out
\* once, and none is held by a cache, a tracking list or the tick manager.
FactoryInstancesUnshared ==
  \A k \in FactoryKeys :
    /\ InstancesOf(k, "factory") \cap Held(World) = {}
    /\ Injected(built, k) \subseteq InstancesOf(k, "factory")
    /\ \A b1 \in built : \A b2 \in built \ {b1} :
         Injected({b1}, k) \cap Injected({b2}, k) = {}
    /\ (Resolved(k) /\ last.val \in InstancesOf(k, "factory")) =>
         last.val \notin Injected(built, k)

C4_FactoryAlwaysNew ==
  /\ FactoryInstancesUnshared
  /\ \A k \in FactoryKeys : \A s \in LiveScopes : ResolveBuildsNew(s, k)

(***************************************************************************)
(* C4, amended.  The same for every resolve as a constructor dependency    *)
(* and for every Scope.Resolve from a scope that holds no external for the *)
(* key; from a scope that holds one, Scope.Resolve returns the external    *)
(* and constructs nothing.                                                 *)
(***************************************************************************)
C4_FactoryNewUnlessExternal ==
  /\ FactoryInstancesUnshared
  /\ \A k \in FactoryKeys : \A s \in LiveScopes :
       IF HasExternal(s, k)
       THEN LET r == ScopeResolveWithContext(World, s, k, <<>>) IN
            r.ok /\ r.val = scopes[s].externalInstances[k] /\ r.w.built = built
       ELSE ResolveBuildsNew(s, k)

\* Bullet has been resolved directly after another Bullet was constructed.
C4_Witness ==
  /\ last.op = "Scope.Resolve"
  /\ Resolved("Bullet")
  /\ last.val \in InstancesOf("Bullet", "factory")
  /\ Cardinality(InstancesOf("Bullet", "factory")) >= 2
  /\ Injected(built, "Bullet") # {}

(***************************************************************************)
(* C5.  Claim as stated: after a scope has been destroyed, no instance     *)
(* that the scope registered with the tick dispatcher receives a Tick,     *)
(* FixedTick or RenderTick callback.                                       *)
(***************************************************************************)
Dispatched == last.op \in {"Heartbeat", "RenderStepped"}

C5_NoTickAfterDestroy ==
  Dispatched =>
    \A s \in ScopeIds : scopes[s].destroyed =>
      \A i \in 1..Len(last.calls) : last.calls[i].inst \notin scopes[s].registered

(***************************************************************************)
(* C6.  Claim as stated: when a scope is destroyed, Destroy is invoked     *)
(* exactly once on every instance the scope tracked that has a Destroy     *)
(* method, also when an earlier callback throws and when the instance was  *)
(* provided more than once or under several keys.                          *)
(***************************************************************************)
DestroyCount(s, x) ==
  Cardinality({i \in 1..Len(scopes[s].destroyCalls) :
                 scopes[s].destroyCalls[i].ev = "Destroy" /\ scopes[s].destroyCalls[i].inst = x})

C6_DestroyedExactlyOnce ==
  \A s \in ScopeIds : scopes[s].destroyed =>
    \A x \in scopes[s].tracked : IsDestroyable(x) => DestroyCount(s, x) = 1

(***************************************************************************)
(* C7.  Within one Destroy of a scope that is not yet destroyed the steps  *)
(* happen in this order: every tickable the scope tracks is unregistered   *)
(* from the tick manager; then every child scope is destroyed, recursively *)
(* (so every step of a descendant comes before any Destroy callback of the *)
(* scope itself); then Destroy is invoked on the scope's own destroyables; *)
(* then the caches and tracking lists are cleared; then the scope is       *)
(* marked destroyed.                                                       *)
(***************************************************************************)
RECURSIVE Ancestors(_)
Ancestors(s) ==
  IF scopes[s].parent = 0 THEN {} ELSE {scopes[s].parent} \cup Ancestors(scopes[s].parent)

StepsOf(log, s, evs) == {i \in 1..Len(log) : log[i].scope = s /\ log[i].ev \in evs}
StepsBelow(log, s) == {i \in 1..Len(log) : s \in Ancestors(log[i].scope)}
Precede(I, J) == \A i \in I : \A j \in J : i < j

DestroyOrder(log, s) ==
  LET unreg == StepsOf(log, s, {"unregister"})
      below == StepsBelow(log, s)
      own == StepsOf(log, s, {"Destroy"})
      clear == StepsOf(log, s, {"clear"})
      mark == StepsOf(log, s, {"destroyed"})
  IN /\ Precede(unreg, below \cup own \cup clear \cup mark)
     /\ Precede(below, own \cup clear \cup mark)
     /\ Precede(own, clear \cup mark)
     /\ Precede(clear, mark)
     /\ Cardinality(clear) = 1 /\ Cardinality(mark) = 1
     /\ scopes[s].registered = {log[i].inst : i \in unreg}
     /\ scopes[s].tracked = {log[i].inst : i \in own}
     /\ \A c \in ScopeIds : scopes[c].parent = s => scopes[c].destroyed
     /\ scopes[s].destroyed

C7_DestroyOrder ==
  (last.op = "Destroy" /\ last.calls # <<>>) =>
    /\ \A s \in {last.calls[i].scope : i \in 1..Len(last.calls)} :
         DestroyOrder(last.calls, s)
    /\ last.calls[Len(last.calls)] = Event("destroyed", last.scope, NoValue, "")
    /\ last.scope \in {last.calls[i].scope : i \in 1..Len(last.calls)}

\* A scope with tickables and destroyables of its own has been destroyed together
\* with a child that had a destroyable.
C7_Witness ==
  /\ last.op = "Destroy"
  /\ StepsOf(last.calls, last.scope, {"unregister"}) # {}
  /\ StepsOf(last.calls, last.scope, {"Destroy"}) # {}
  /\ \E i \in StepsBelow(last.calls, last.scope) : last.calls[i].ev = "Destroy"

(***************************************************************************)
(* C8.  Claim as stated: on a destroyed scope each of Resolve,             *)
(* ProvideRuntime, CreateChildScope, StartAll, DebugServices and           *)
(* GetScopeId fails with an error and changes no state.                    *)
(***************************************************************************)
CalledOnDestroyed(ops) ==
  /\ last'.op \in ops
  /\ last'.scope \in ScopeIds
  /\ scopes[last'.scope].destroyed

C8_EveryOperationFails ==
  [][CalledOnDestroyed({"Scope.Resolve", "ProvideRuntime", "CreateChildScope",
                        "StartAll", "DebugServices", "GetScopeId"})
       => (~last'.ok /\ UNCHANGED ProgramVars)]_vars

(***************************************************************************)
(* C8, amended.  On a destroyed scope Resolve, ProvideRuntime and          *)
(* CreateChildScope fail with an error and change no state; StartAll,      *)
(* DebugServices and GetScopeId do not fail: they return normally, StartAll*)
(* calling no Start and DebugServices reporting no service, and change no  *)
(* state.                                                                  *)
(***************************************************************************)
C8_GuardedOperationsFail ==
  [][/\ CalledOnDestroyed({"Scope.Resolve", "ProvideRuntime", "CreateChildScope"})
          => (~last'.ok /\ last'.err = "DestroyedScope" /\ UNCHANGED ProgramVars)
     /\ CalledOnDestroyed({"StartAll", "DebugServices", "GetScopeId"})
          => (last'.ok /\ last'.calls = <<>> /\ UNCHANGED ProgramVars)
     /\ CalledOnDestroyed({"DebugServices"}) => last'.num = 0
     /\ CalledOnDestroyed({"GetScopeId"}) => last'.num = last'.scope
    ]_vars

\* ProvideRuntime has been refused by a scope that had been destroyed with
\* instances in it.
C8_Witness ==
  /\ last.op = "ProvideRuntime"
  /\ ~last.ok
  /\ last.err = "DestroyedScope"
  /\ scopes[last.scope].destroyed
  /\ scopes[last.scope].destroyCalls # <<>>

(***************************************************************************)
(* C9.  Destroy on a scope that is already destroyed invokes no Destroy    *)
(* callback, unregisters nothing, destroys no child and leaves the scopes, *)
(* the container and the tick manager unchanged.                           *)
(***************************************************************************)
C9_DestroyIdempotent ==
  [][(last'.op = "Destroy" /\ last'.scope \in ScopeIds /\ scopes[last'.scope].destroyed)
       => (last'.calls = <<>> /\ UNCHANGED ProgramVars)]_vars

\* Destroy has been called again on a scope whose first Destroy ran callbacks, while
\* another scope is alive with instances registered in the tick manager.
C9_Witness ==
  /\ last.op = "Destroy"
  /\ last.calls = <<>>
  /\ scopes[last.scope].destroyed
  /\ scopes[last.scope].destroyCalls # <<>>
  /\ tickManager.tickables # <<>>

(***************************************************************************)
(* C10.  Destroying a scope never changes the singleton cache: every       *)
(* singleton resolved before resolves to the identical instance            *)
(* afterwards, and the Destroy of a scope never invokes Destroy on a       *)
(* singleton instance.                                                     *)
(***************************************************************************)
SingletonInstances == UNION {InstancesOf(k, "singleton") : k \in Keys}

C10_DestroyKeepsSingletons ==
  [][last'.op = "Destroy" =>
       /\ singletons' = singletons
       /\ \A k \in SingletonKeys : singletons[k] # NoValue =>
            (ContainerResolve(World, k).val)' = singletons[k]
       /\ \A i \in 1..Len(last'.calls) :
            last'.calls[i].ev = "Destroy" => last'.calls[i].inst \notin SingletonInstances
    ]_vars

\* A scope whose Stats was constructed with the Destroy-capable singleton Logger has
\* been destroyed: Stats got its Destroy, Logger is still cached.
C10_Witness ==
  /\ last.op = "Destroy"
  /\ singletons["Logger"] \in InstancesOf("Logger", "singleton")
  /\ IsDestroyable(singletons["Logger"])
  /\ \E i \in 1..Len(last.calls) :
       /\ last.calls[i].ev = "Destroy"
       /\ last.calls[i].inst.cls = "Stats"
       /\ last.calls[i].inst.args = <<singletons["Logger"]>>

(***************************************************************************)
(* C11.  A resolve of a key from which a circle of dependencies can be     *)
(* reached fails with CircularDependency, whatever the lifetime of the     *)
(* keys on the circle, provided nothing else makes it fail first (every    *)
(* key reached is registered, no lifetime rule is broken, validation       *)
(* passes).  The chain reported is the recursion stack, which starts at    *)
(* the resolved key, follows dependencies and holds no key twice,          *)
(* followed by the key met again; no key of the circle is in the           *)
(* singleton cache or in the cache of a scope.                             *)
(***************************************************************************)
DependenciesOf(k) ==
  IF HasRegistration(k) THEN Range(DependencyTokens[GetRegistration(k).Implementation])
  ELSE {}

RECURSIVE ReachFrom(_, _)
Grow(new, seen) == IF new \subseteq seen THEN seen ELSE ReachFrom(new \ seen, seen \cup new)
ReachFrom(frontier, seen) == Grow(UNION {DependenciesOf(k) : k \in frontier}, seen)
\* The keys reached from k through one dependency or more.
Reach(k) == ReachFrom({k}, {})
CycleReachable(k) == \E j \in Reach(k) \cup {k} : j \in Reach(j)

AllValid == \A i \in 1..Len(registrations) : ValidateRegistration(registrations[i])
LifetimeOf(k) == GetRegistration(k).Lifetime

\* The latest call is a resolve that no rule but the circle can make fail.
NothingElseFails ==
  /\ \A j \in Reach(last.key) \cup {last.key} : HasRegistration(j)
  /\ \/ /\ last.op = "Container.Resolve"
        /\ AllValid
        /\ LifetimeOf(last.key) = "singleton"
        /\ \A j \in Reach(last.key) : LifetimeOf(j) # "scoped"
     \/ /\ last.op = "Scope.Resolve"
        /\ ~scopes[last.scope].destroyed
        /\ \A j \in Keys : ~HasExternal(last.scope, j)
        /\ LifetimeOf(last.key) = "singleton" => AllValid
        /\ \A j \in Reach(last.key) \cup {last.key} :
             LifetimeOf(j) = "singleton" =>
               \A d \in DependenciesOf(j) : LifetimeOf(d) # "scoped"

StackThenRepeated(chain) ==
  LET n == Len(chain) IN
  /\ n >= 2
  /\ \A i, j \in 1..(n-1) : i # j => chain[i] # chain[j]
  /\ \E i \in 1..(n-1) : chain[i] = chain[n]
  /\ \A i \in 1..(n-1) : chain[i+1] \in DependenciesOf(chain[i])

CircleOf(chain) == {chain[i] : i \in IndexOf(chain, chain[Len(chain)])..Len(chain)}

Cached(k) ==
  \/ singletons[k] # NoValue
  \/ \E s \in ScopeIds : scopes[s].scopedInstances[k] # NoValue

C11_CircleDetected ==
  /\ (CycleReachable(last.key) /\ NothingElseFails)
       => (~last.ok /\ last.err = "CircularDependency" /\ last.chain[1] = last.key)
  /\ last.err = "CircularDependency"
       => (StackThenRepeated(last.chain) /\ \A k \in CircleOf(last.chain) : ~Cached(k))

\* X, whose second dependency lies on a circle of factories, has been resolved
\* in a scope: its first dependency was constructed and cached, then the circle
\* was found.
C11_Witness ==
  /\ last.op = "Scope.Resolve"
  /\ last.key = "X"
  /\ LifetimeOf("A") = "factory"
  /\ last.err = "CircularDependency"
  /\ last.chain = <<"X", "A", "B", "A">>
  /\ singletons["Logger"] # NoValue

(***************************************************************************)
(* C12.  Claim as stated: after Launch has returned successfully, every    *)
(* registered singleton whose implementation has a Start method has been   *)
(* instantiated and has had Start invoked on it.                           *)
(***************************************************************************)
Launches == last.op = "Launch" /\ last.ok

C12_LaunchStartsSingletons ==
  Launches =>
    \A k \in LaunchKeys :
      /\ singletons[k] \in InstancesOf(k, "singleton")
      /\ \E i \in 1..Len(last.calls) :
           last.calls[i].ev = "Start" /\ last.calls[i].inst = singletons[k]

(***************************************************************************)
(* C13.  Claim as stated: Launch resolves the singletons that have a Start *)
(* method in registration order: when K1 was registered before K2, Launch  *)
(* resolves K1 before K2.                                                  *)
(***************************************************************************)
RegistrationIndex(k) == CHOOSE i \in 1..Len(registrations) : registrations[i].Token = k

C13_LaunchInRegistrationOrder ==
  last.op = "Launch" =>
    \A i, j \in 1..Len(last.calls) :
      (i < j /\ last.calls[i].ev = "Resolve" /\ last.calls[j].ev = "Resolve")
        => RegistrationIndex(last.calls[i].note) < RegistrationIndex(last.calls[j].note)

(***************************************************************************)
(* C14.  A Launch called after a Launch that returned successfully, with   *)
(* no Use in between, returns successfully, constructs nothing and leaves  *)
(* the singleton cache as the first call left it; every singleton key has  *)
(* at most one instance.                                                   *)
(***************************************************************************)
BuildsNothing(r) ==
  r.ok /\ r.w.singletons = singletons /\ r.w.built = built /\ r.w.nextId = nextId

C14_SecondLaunchBuildsNothing ==
  Launches =>
    /\ Validate(validated).ok
    /\ \A order \in IterationOrders(LaunchKeys) :
         BuildsNothing(LaunchFrom([World EXCEPT !.validated = TRUE], order, 1))
    /\ \A k \in SingletonKeys : Cardinality(InstancesOf(k, "singleton")) <= 1

\* Launch has returned after resolving the two singletons that have a Start
\* method, both of which it constructed.
C14_Witness ==
  /\ Launches
  /\ Len(last.calls) = 2
  /\ singletons["Logger"] \in InstancesOf("Logger", "singleton")
  /\ singletons["Clock"] \in InstancesOf("Clock", "singleton")

(***************************************************************************)
(* C15.  Whatever Use calls have been made, successful or failing, no key  *)
(* has two single, scoped or factory registrations.  A Use of a module     *)
(* fails with DuplicateRegistration exactly when one of its records has a  *)
(* key that is already registered or that an earlier record of the same    *)
(* module has; every registration made before the call is kept, first in   *)
(* line for its key.                                                       *)
(***************************************************************************)
OneRegistrationPerKey ==
  \A i, j \in 1..Len(registrations) :
    i # j => registrations[i].Token # registrations[j].Token

InsertsRegisteredKey(module) ==
  \E i \in 1..Len(module.registrations) :
    \/ HasRegistration(module.registrations[i].Token)
    \/ \E j \in 1..(i-1) : module.registrations[j].Token = module.registrations[i].Token

C15_FirstRegistrationKept ==
  [][/\ OneRegistrationPerKey'
     /\ \A module \in WiringModules :
          Use(module) =>
            /\ InsertsRegisteredKey(module)
                 <=> (~last'.ok /\ last'.err = "DuplicateRegistration")
            /\ SubSeq(registrations', 1, Len(registrations)) = registrations
            /\ \A k \in Keys : HasRegistration(k) => GetRegistration(k)' = GetRegistration(k)
    ]_vars

\* After CoreModule, the module that registers PlayerData twice has been used:
\* the call failed and PlayerData keeps its first registration.
C15_Witness ==
  /\ last.op = "Use"
  /\ last.err = "DuplicateRegistration"
  /\ HasRegistration("Logger")
  /\ LifetimeOf("PlayerData") = "scoped"

(***************************************************************************)
(* C16.  In every reachable state the tick manager has at most one         *)
(* callback connected to Heartbeat and at most one connected to            *)
(* RenderStepped, however many instances are registered; the connection    *)
(* to RenderStepped exists only on a host that renders (a client).         *)
(***************************************************************************)
C16_OneSubscriptionPerSignal ==
  /\ tickManager.connected.Heartbeat <= 1
  /\ tickManager.connected.RenderStepped <= 1
  /\ ~isClient => tickManager.connected.RenderStepped = 0

\* Several instances are registered for ticks and for render ticks, through one
\* connection to each signal.
C16_Witness ==
  /\ Len(tickManager.tickables) + Len(tickManager.fixedTickables) >= 3
  /\ Len(tickManager.renderTickables) >= 2
  /\ tickManager.connected = [Heartbeat |-> 1, RenderStepped |-> 1]

(***************************************************************************)
(* C17.  Claim as stated: a value given to scope S for key K with          *)
(* ProvideRuntime is what S.Resolve(K) returns, in preference to any       *)
(* cached instance and to any registration of K, and it is what a service  *)
(* constructed in S receives for a parameter whose key is K.               *)
(***************************************************************************)
\* The objects constructed by the step with s as the resolution scope.
ConstructedIn(s) == {b.inst : b \in {c \in built' \ built : c.scope = s}}

ReceivesExternals(s, x) ==
  \A i \in 1..Len(x.args) :
    scopes'[s].externalInstances[DependencyTokens[x.cls][i]] # NoValue
      => x.args[i] = scopes'[s].externalInstances[DependencyTokens[x.cls][i]]

C17_ExternalsTakePrecedence ==
  [][/\ (last'.op = "Scope.Resolve" /\ last'.ok /\ HasExternal(last'.scope, last'.key))
         => last'.val = scopes[last'.scope].externalInstances[last'.key]
     /\ \A s \in 1..Len(scopes') : \A x \in ConstructedIn(s) : ReceivesExternals(s, x)
    ]_vars

(***************************************************************************)
(* C18.  Claim as stated: resolving a keyed token, from the container,     *)
(* from a scope or as a dependency, returns a function f.  f(k) for a      *)
(* registered key k constructs a new instance that no cache or tracking    *)
(* list holds; f(k) for a key that is not registered fails with an error   *)
(* and constructs nothing.                                                 *)
(***************************************************************************)
IsFunction(v) == v.cls = "Function"

KeyedFromContainer ==
  (last'.op = "Container.Resolve" /\ HasKeyed(last'.key) /\ (validated \/ AllValid))
    => (last'.ok /\ IsFunction(last'.val))

KeyedFromScope ==
  (last'.op = "Scope.Resolve" /\ HasKeyed(last'.key) /\ ~scopes[last'.scope].destroyed)
    => (last'.ok /\ IsFunction(last'.val))

KeyedAsDependency ==
  \A b \in built' \ built : \A i \in 1..Len(b.inst.args) :
    HasKeyed(DependencyTokens[b.inst.cls][i]) => IsFunction(b.inst.args[i])

KeyedCallConstructs(f, key) ==
  IF keyedRegistrations[f.args[1].cls][key] # NoKey
  THEN /\ last'.ok
       /\ last'.val.cls = keyedRegistrations[f.args[1].cls][key]
       /\ last'.val \in {b.inst : b \in built' \ built}
       /\ last'.val \notin {b.inst : b \in built}
       /\ last'.val \notin Held(World)'
  ELSE /\ ~last'.ok
       /\ last'.err = "KeyedInjectionFailed"
       /\ UNCHANGED ProgramVars

C18_KeyedTokenResolvesToFactory ==
  [][/\ KeyedFromContainer
     /\ KeyedFromScope
     /\ KeyedAsDependency
     /\ \A f \in Functions, key \in KeyedKeys :
          CallKeyedFactory(f, key) => KeyedCallConstructs(f, key)
    ]_vars

(***************************************************************************)
(* C19.  Claim as stated: resolving a multi token, directly from the       *)
(* container or from a scope or as a dependency, returns a list with one   *)
(* instance per registered implementation, in insertion order: the order   *)
(* inside each multi record and the order of the Use calls.                *)
(***************************************************************************)
RECURSIVE ImplementationsFor(_, _, _)
\* The implementations the multi records i.. of a module give for token t.
ImplementationsFor(list, t, i) ==
  IF i > Len(list) THEN <<>>
  ELSE (IF list[i].token = t THEN list[i].implementations ELSE <<>>)
       \o ImplementationsFor(list, t, i + 1)

InsertionOrderKept ==
  \A module \in WiringModules :
    (Use(module) /\ last'.ok) =>
      \A t \in Tokens :
        multiRegistrations'[t] =
          multiRegistrations[t] \o ImplementationsFor(module.multiRegistrations, t, 1)

OnePerImplementation(v, t) ==
  /\ v.cls = "Array"
  /\ Len(v.args) = Len(multiRegistrations[t])
  /\ \A i \in 1..Len(v.args) : v.args[i].cls = multiRegistrations[t][i]
  /\ \A i, j \in 1..Len(v.args) : i # j => v.args[i] # v.args[j]

MultiFromContainer ==
  (last'.op = "Container.Resolve" /\ HasMulti(last'.key) /\ (validated \/ AllValid))
    => (last'.ok /\ OnePerImplementation(last'.val, last'.key))

MultiFromScope ==
  (last'.op = "Scope.Resolve" /\ HasMulti(last'.key) /\ ~scopes[last'.scope].destroyed)
    => (last'.ok /\ OnePerImplementation(last'.val, last'.key))

MultiAsDependency ==
  \A b \in built' \ built : \A i \in 1..Len(b.inst.args) :
    HasMulti(DependencyTokens[b.inst.cls][i])
      => OnePerImplementation(b.inst.args[i], DependencyTokens[b.inst.cls][i])

C19_MultiTokenResolvesToList ==
  [][InsertionOrderKept /\ MultiFromContainer /\ MultiFromScope /\ MultiAsDependency]_vars

(***************************************************************************)
(* C20.  Claim as stated: the validated flag is false at first, is true    *)
(* after a successful Validate, Launch or Container.Resolve, and is false  *)
(* after every Use; while it is true, Validate returns without examining   *)
(* a registration and changes nothing.                                     *)
(***************************************************************************)
FalseAtFirst == last.op = "new" => ~validated

SetBySuccess ==
  (last'.op \in {"Validate", "Launch", "Container.Resolve"} /\ last'.ok) => validated'

ResetByUse == \A module \in WiringModules : Use(module) => ~validated'

ValidateSkipped ==
  (validated /\ ContainerValidate) => (last'.ok /\ last'.num = 0 /\ UNCHANGED ProgramVars)

C20_ValidatedFlag ==
  [][FalseAtFirst /\ SetBySuccess /\ ResetByUse /\ ValidateSkipped]_vars

(***************************************************************************)
(* C21.  Claim as stated: Validate fails if and only if some registration  *)
(* has a dependency key that is neither registered nor a multi nor a keyed *)
(* token of the container; when validation fails the flag stays false,     *)
(* nothing is constructed and the Launch or Resolve that ran it is         *)
(* aborted.                                                                *)
(***************************************************************************)
ValidateFailsOnMissing ==
  ContainerValidate =>
    /\ ~last'.ok <=> ~AllValid
    /\ ~last'.ok => (~validated' /\ built' = built /\ singletons' = singletons)

LaunchOrResolveAborted ==
  (last'.op \in {"Launch", "Container.Resolve"} /\ ~AllValid)
    => /\ ~last'.ok
       /\ last'.err = "ValidationFailed"
       /\ ~validated'
       /\ built' = built
       /\ singletons' = singletons

C21_ValidateFailsOnMissingDependency ==
  [][ValidateFailsOnMissing /\ LaunchOrResolveAborted]_vars

(***************************************************************************)
(* C22.  While the dispatcher is paused a signal of the host delivers no   *)
(* callback to any registered instance and the subscriptions stay          *)
(* connected; Pause and Resume change the paused flag and nothing else of  *)
(* the dispatcher; at the first signal after Resume every registered       *)
(* instance receives its callback.                                         *)
(***************************************************************************)
SameButPaused(tm1, tm2) ==
  /\ tm2.tickables = tm1.tickables
  /\ tm2.fixedTickables = tm1.fixedTickables
  /\ tm2.renderTickables = tm1.renderTickables
  /\ tm2.heartbeatConnection = tm1.heartbeatConnection
  /\ tm2.renderSteppedConnection = tm1.renderSteppedConnection
  /\ tm2.connected = tm1.connected

Delivered(calls, ev, x) == \E i \in 1..Len(calls) : calls[i].ev = ev /\ calls[i].inst = x

NothingWhilePaused ==
  (tickManager.paused /\ (\E dt \in DeltaTimes : Heartbeat(dt) \/ RenderStepped(dt)))
    => /\ last'.calls = <<>>
       /\ tickManager'.connected = tickManager.connected

OnlyTheFlag ==
  /\ TickManagerPause => (tickManager'.paused /\ SameButPaused(tickManager, tickManager'))
  /\ TickManagerResume => (~tickManager'.paused /\ SameButPaused(tickManager, tickManager'))

DeliveredAfterResume ==
  /\ (last.op = "TickManager.Resume" /\ \E dt \in DeltaTimes : Heartbeat(dt))
       => /\ \A x \in Range(tickManager.tickables) : Delivered(last'.calls, "Tick", x)
          /\ \A x \in Range(tickManager.fixedTickables) : Delivered(last'.calls, "FixedTick", x)
  /\ (last.op = "TickManager.Resume" /\ \E dt \in DeltaTimes : RenderStepped(dt))
       => \A x \in Range(tickManager.renderTickables) : Delivered(last'.calls, "RenderTick", x)

C22_PauseStopsCallbacksOnly ==
  [][NothingWhilePaused /\ OnlyTheFlag /\ DeliveredAfterResume]_vars

\* A signal arrived while the dispatcher was paused with instances registered.
C22_Witness ==
  /\ last.op = "Heartbeat"
  /\ tickManager.paused
  /\ tickManager.tickables # <<>>
  /\ tickManager.connected.Heartbeat = 1
  /\ last.calls = <<>>

(***************************************************************************)
(* C23.  Every Container.Resolve and Scope.Resolve ends, with a value or   *)
(* with an error, after finitely many construction steps, whatever the     *)
(* registrations are: circles among them, and dependencies through multi   *)
(* and keyed tokens, included.  The recursion stack never holds a key      *)
(* twice, so it is no deeper than the number of keys, and the call runs at *)
(* most one constructor for each path without a repeated key that starts   *)
(* at the resolved key in the graph of dependencies.                       *)
(***************************************************************************)
ResolveErrors ==
  {"CircularDependency", "MissingRegistration", "LifetimeViolation", "ValidationFailed",
   "DestroyedScope", MissingMethod}

RECURSIVE PathsFrom(_, _)
RECURSIVE PathsThrough(_, _, _)
\* The paths without a repeated key that start at one of the dependencies i.. of
\* a constructor, stack holding the keys from the resolved key to its key.
PathsThrough(dependencyTokens, stack, i) ==
  IF i > Len(dependencyTokens) THEN 0
  ELSE PathsFrom(dependencyTokens[i], stack) + PathsThrough(dependencyTokens, stack, i + 1)

\* The paths without a repeated key that start at k: none when k is on the stack
\* already, is not registered, or is a multi or a keyed token (the resolve of a
\* keyed token constructs nothing, and ResolveMulti constructs nothing either).
PathsFrom(k, stack) ==
  IF k \in stack \/ ~HasRegistration(k) \/ HasMulti(k) \/ HasKeyed(k) THEN 0
  ELSE 1 + PathsThrough(DependencyTokens[GetRegistration(k).Implementation], stack \cup {k}, 1)

NoKeyTwice(chain) == \A i, j \in 1..Len(chain) : i # j => chain[i] # chain[j]

\* The chain of a failed call is the recursion stack when the error was raised,
\* with, for a CircularDependency, the key met again behind it.
StackOf(call) == IF call.err = "CircularDependency" THEN Pop(call.chain) ELSE call.chain

EndsInFiniteSteps(call) ==
  /\ call.ok \/ call.err \in ResolveErrors
  /\ ~call.ok => /\ NoKeyTwice(StackOf(call))
                 /\ Len(StackOf(call)) <= Cardinality(Keys)
  /\ nextId' - nextId <= PathsFrom(call.key, {})

C23_EveryResolveTerminates ==
  [][last'.op \in {"Container.Resolve", "Scope.Resolve"} => EndsInFiniteSteps(last')]_vars

\* The Host, an implementation of the multi token it depends on, was resolved in
\* a scope: the call ended, with the error of ResolveMulti, before a constructor
\* ran, while the Armory, an implementation of the keyed token it depends on, had
\* been constructed with the function.
C23_Witness ==
  /\ last.op = "Scope.Resolve"
  /\ last.key = "Host"
  /\ Includes(multiRegistrations["Plugins"], "Host")
  /\ ~last.ok
  /\ last.err = MissingMethod
  /\ last.chain = <<"Host">>
  /\ \E b \in built : b.key = "Armory" /\ \E x \in Range(b.inst.args) : x.cls = "Function"

(***************************************************************************)
(* C24.  At a Heartbeat signal received while not paused the dispatcher    *)
(* calls Tick on every entry of the tickables list in list order, then     *)
(* FixedTick on every entry of the fixed tickables list in list order,     *)
(* once per entry and with the deltaTime of the signal; a callback that    *)
(* throws does not keep the later ones from being called.  RenderTick is   *)
(* called at the RenderStepped signal only, on every entry of the render   *)
(* tickables list in list order.                                           *)
(***************************************************************************)
CalledInOrder(calls, from, list, ev, deltaTime) ==
  \A i \in 1..Len(list) :
    /\ calls[from + i].ev = ev
    /\ calls[from + i].inst = list[i]
    /\ calls[from + i].dt = deltaTime

HeartbeatCalls ==
  (last.op = "Heartbeat" /\ ~tickManager.paused)
    => /\ Len(last.calls) = Len(tickManager.tickables) + Len(tickManager.fixedTickables)
       /\ CalledInOrder(last.calls, 0, tickManager.tickables, "Tick", last.num)
       /\ CalledInOrder(last.calls, Len(tickManager.tickables), tickManager.fixedTickables,
                        "FixedTick", last.num)

RenderSteppedCalls ==
  (last.op = "RenderStepped" /\ ~tickManager.paused)
    => /\ Len(last.calls) = Len(tickManager.renderTickables)
       /\ CalledInOrder(last.calls, 0, tickManager.renderTickables, "RenderTick", last.num)

RenderOnlyOnRenderStepped ==
  \A i \in 1..Len(last.calls) :
    /\ last.calls[i].ev = "RenderTick" => last.op = "RenderStepped"
    /\ last.calls[i].ev \in {"Tick", "FixedTick"} => last.op = "Heartbeat"

C24_CallbacksInListOrder ==
  HeartbeatCalls /\ RenderSteppedCalls /\ RenderOnlyOnRenderStepped

\* A Tick threw and callbacks of both lists followed it in the same frame, while
\* render tickables were registered.
C24_Witness ==
  /\ last.op = "Heartbeat"
  /\ last.num = 2
  /\ \E i, j, k \in 1..Len(last.calls) :
       /\ i < j /\ j < k
       /\ last.calls[i].note = "threw"
       /\ last.calls[j].ev = "Tick"
       /\ last.calls[k].ev = "FixedTick"
  /\ tickManager.renderTickables # <<>>

(***************************************************************************)
(* C25.  Claim as stated: after every call that registers a tickable or a  *)
(* fixed tickable the dispatcher is subscribed to Heartbeat, and after     *)
(* every call that registers a render tickable on a client it is           *)
(* subscribed to RenderStepped, in whatever state the dispatcher was when  *)
(* the call was made, a dispatcher that was destroyed included.            *)
(***************************************************************************)
Registers(list1, list2) == Len(list2) > Len(list1)

LogicSubscriptionLive ==
  (\/ Registers(tickManager.tickables, tickManager'.tickables)
   \/ Registers(tickManager.fixedTickables, tickManager'.fixedTickables))
    => tickManager'.connected.Heartbeat > 0

RenderSubscriptionLive ==
  (isClient /\ Registers(tickManager.renderTickables, tickManager'.renderTickables))
    => tickManager'.connected.RenderStepped > 0

C25_RegisterEnsuresSubscription ==
  [][LogicSubscriptionLive /\ RenderSubscriptionLive]_vars

(***************************************************************************)
(* C26.  A Scope.Resolve of a key that the scope has neither as an         *)
(* external nor in its cache and that the container has no registration    *)
(* for is answered by the nearest ancestor scope that has an external for  *)
(* the key; when no ancestor has one, and so when the scope has no         *)
(* parent, it fails with MissingRegistration whose chain is the key alone  *)
(* (the resolution stack of a direct call is empty).  Nothing is           *)
(* constructed or cached either way.                                       *)
(***************************************************************************)
RECURSIVE NearestExternal(_, _)
NearestExternal(s, k) ==
  IF s = 0 THEN NoValue
  ELSE IF HasExternal(s, k) THEN scopes[s].externalInstances[k]
  ELSE NearestExternal(scopes[s].parent, k)

Unknown(s, k) ==
  /\ s \in LiveScopes
  /\ GetRegistration(k) = NoRegistration
  /\ ~HasExternal(s, k)
  /\ scopes[s].scopedInstances[k] = NoValue

DelegatedToParent(s, k) ==
  (Unknown(s, k) /\ ScopeResolve(s, k))
    => /\ IF NearestExternal(scopes[s].parent, k) # NoValue
          THEN last'.ok /\ last'.val = NearestExternal(scopes[s].parent, k)
          ELSE ~last'.ok /\ last'.err = "MissingRegistration" /\ last'.chain = <<k>>
       /\ UNCHANGED ProgramVars

C26_MissingKeyGoesToParent ==
  [][\A s \in 1..MaxScopes, k \in ScopeKeys : DelegatedToParent(s, k)]_vars

\* A child scope returned the value its parent holds as an external for a key
\* that has no registration.
C26_Witness ==
  /\ last.op = "Scope.Resolve"
  /\ last.ok
  /\ Unknown(last.scope, last.key)
  /\ scopes[last.scope].parent # 0
  /\ HasExternal(scopes[last.scope].parent, last.key)
  /\ last.val = scopes[scopes[last.scope].parent].externalInstances[last.key]

(***************************************************************************)
(* C27.  A key registered as scoped is resolved with a scope only.  In a   *)
(* container whose registrations validate, Container.Resolve of a scoped   *)
(* key fails with LifetimeViolation, and so does Container.Resolve of a    *)
(* singleton not yet cached that depends on a scoped key, directly or      *)
(* through factories; neither constructs an instance of the scoped key     *)
(* nor puts anything in a cache.  No instance of a scoped key is ever      *)
(* constructed without a scope, and none is in the singleton cache.        *)
(***************************************************************************)
NewlyBuilt(k) == {b \in built' \ built : b.key = k}

RefusedWithoutScope(k) ==
  /\ ~last'.ok
  /\ last'.err = "LifetimeViolation"
  /\ \A j \in ScopedKeys : NewlyBuilt(j) = {}
  /\ NewlyBuilt(k) = {}
  /\ singletons' = singletons
  /\ scopes' = scopes

ScopedFromContainer(k) ==
  (k \in ScopedKeys /\ AllValid /\ Resolve(k)) => RefusedWithoutScope(k)

ScopedAsDependency(k) ==
  (/\ k \in SingletonKeys
   /\ singletons[k] = NoValue
   /\ Reach(k) \cap ScopedKeys # {}
   /\ AllValid
   /\ Resolve(k)) => RefusedWithoutScope(k)

ScopedNeedsScope ==
  /\ \A b \in built : b.key \in ScopedKeys => b.scope # 0
  /\ \A k \in ScopedKeys : singletons[k] = NoValue

C27_ScopedKeyNeedsScope ==
  [][/\ \A k \in LifetimeContainerKeys : ScopedFromContainer(k) /\ ScopedAsDependency(k)
     /\ ScopedNeedsScope']_vars

\* Container.Resolve of a singleton that takes a factory product built from the
\* scoped Logger was refused, while a scope has a Logger in its cache.
C27_Witness ==
  /\ last.op = "Container.Resolve"
  /\ last.key = "Ctl"
  /\ last.err = "LifetimeViolation"
  /\ "Logger" \in ScopedKeys
  /\ \E s \in LiveScopes : scopes[s].scopedInstances["Logger"] # NoValue

(***************************************************************************)
(* C28.  Claim as stated: CreateScope puts every external of the scope     *)
(* module in the new scope before it resolves the declared root, then      *)
(* calls Start exactly once on every instance with a Start method that the *)
(* scope holds in its cache or its externals; a Start that throws keeps    *)
(* neither the other calls from being made nor the scope from being        *)
(* returned.                                                               *)
(***************************************************************************)
HeldBy(sc) ==
  {sc.scopedInstances[k] : k \in Present(sc.scopedInstances)}
    \cup {sc.externalInstances[k] : k \in Present(sc.externalInstances)}

Starts(calls, x) ==
  Cardinality({i \in 1..Len(calls) : calls[i].ev = "Start" /\ calls[i].inst = x})

CreatesWithRoot(module) == CreateScope(module) /\ module.root # NoKey /\ last'.ok

ExternalsBeforeRoot(module) ==
  CreatesWithRoot(module) =>
    /\ \A i \in 1..Len(module.externals) :
         scopes'[last'.scope].externalInstances[module.externals[i][1]] = module.externals[i][2]
    /\ \A i \in 1..Len(module.externals) :
         module.externals[i][1] = module.root
           => (last'.val = module.externals[i][2] /\ built' = built)

StartedOnceEach(module) ==
  CreatesWithRoot(module) =>
    /\ scopes'[last'.scope].returned
    /\ \A x \in HeldBy(scopes'[last'.scope]) : IsStartable(x) => Starts(last'.calls, x) = 1
    /\ \A i \in 1..Len(last'.calls) :
         last'.calls[i].ev = "Start" => last'.calls[i].inst \in HeldBy(scopes'[last'.scope])

C28_CreateScopeStartsEachOnce ==
  [][\A module \in StartScopes : ExternalsBeforeRoot(module) /\ StartedOnceEach(module)]_vars

(***************************************************************************)
(* C29.  Claim as stated: in every state every instance in the tickables,  *)
(* fixed tickables or render tickables list of a scope that is not         *)
(* destroyed is in the list of the same kind of the tick manager; an       *)
(* instance enters a list of the scope exactly when it is inserted into    *)
(* the cache or the externals of the scope and has the capability, and no  *)
(* Start is called at that moment.                                         *)
(***************************************************************************)
ListedInDispatcher(tm, sc) ==
  /\ Range(sc.tickables) \subseteq Range(tm.tickables)
  /\ Range(sc.fixedTickables) \subseteq Range(tm.fixedTickables)
  /\ Range(sc.renderTickables) \subseteq Range(tm.renderTickables)

ScopeListsInDispatcher ==
  \A s \in ScopeIds : ~scopes[s].destroyed => ListedInDispatcher(tickManager, scopes[s])

\* Scope s before the step, a scope the step creates being empty before it.
Before(s) == IF s \in ScopeIds THEN scopes[s] ELSE NewScope(0)

\* The number of insertions of x into the cache and the externals of scope s the
\* step makes.
Insertions(s, x) ==
  IF last'.op = "ProvideRuntime"
  THEN IF last'.ok /\ last'.scope = s /\ last'.val = x THEN 1 ELSE 0
  ELSE Cardinality({k \in Keys : /\ scopes'[s].scopedInstances[k] = x
                                /\ Before(s).scopedInstances[k] # x})
       + Cardinality({k \in Keys : /\ scopes'[s].externalInstances[k] = x
                                  /\ Before(s).externalInstances[k] # x})

Entered(list1, list2, x, capable, n) ==
  Count(list2, x) = Count(list1, x) + (IF capable THEN n ELSE 0)

EntersOnInsertion(s, x) ==
  ~scopes'[s].destroyed
    => /\ Entered(Before(s).tickables, scopes'[s].tickables, x,
                  IsTickable(x), Insertions(s, x))
       /\ Entered(Before(s).fixedTickables, scopes'[s].fixedTickables, x,
                  IsFixedTickable(x), Insertions(s, x))
       /\ Entered(Before(s).renderTickables, scopes'[s].renderTickables, x,
                  IsRenderTickable(x), Insertions(s, x))

Insertable == {b.inst : b \in built'} \cup ExternalValues \cup {ClockOne}

NoStartOnInsertion ==
  last'.op \in {"Scope.Resolve", "ProvideRuntime"}
    => \A i \in 1..Len(last'.calls) : last'.calls[i].ev # "Start"

TrackedOnInsertion ==
  /\ \A s \in 1..Len(scopes'), x \in Insertable : EntersOnInsertion(s, x)
  /\ NoStartOnInsertion

C29_ScopeTickablesAreRegistered ==
  [][ScopeListsInDispatcher' /\ TrackedOnInsertion]_vars

(***************************************************************************)
(* C29, amended.  As long as TickManager.Destroy has not been called, the  *)
(* same holds.                                                             *)
(***************************************************************************)
C29_RegisteredUntilDispatcherDestroyed ==
  [][(~tickManager'.destroyed => ScopeListsInDispatcher') /\ TrackedOnInsertion]_vars

\* A value provided to a scope entered its tickables and render tickables lists
\* and is in the lists of the tick manager.
C29_Witness ==
  /\ last.op = "ProvideRuntime"
  /\ last.ok
  /\ ~tickManager.destroyed
  /\ IsTickable(last.val) /\ IsRenderTickable(last.val)
  /\ Includes(scopes[last.scope].tickables, last.val)
  /\ Includes(tickManager.renderTickables, last.val)
  /\ tickManager.fixedTickables # <<>>

(***************************************************************************)
(* C30.  Claim as stated: no instance of a key registered as singleton is  *)
(* constructed with an instance of a scoped key or an external of a scope  *)
(* among its constructor arguments, or inside them.  The resolve of a      *)
(* singleton not yet cached whose dependencies reach a scoped key,         *)
(* directly, through factories or through the implementations of a multi   *)
(* token, fails with LifetimeViolation, from the container and from a      *)
(* scope, whatever the scope has cached or was provided; a function the    *)
(* singleton received for a keyed token carries no scope, and its call     *)
(* fails with LifetimeViolation when the implementation reaches a scoped   *)
(* key.                                                                    *)
(***************************************************************************)
RECURSIVE Parts(_)
Parts(x) == {x} \cup UNION {Parts(x.args[i]) : i \in 1..Len(x.args)}

ScopedOrExternal(x) ==
  \/ \E b \in built : b.inst = x /\ b.key \in ScopedKeys
  \/ \E s \in ScopeIds, k \in Keys : scopes[s].externalInstances[k] = x /\ x # NoValue

SingletonsHoldNothingScoped ==
  \A b \in built :
    b.key \in SingletonKeys
      => \A x \in Parts(b.inst) \ {b.inst} :
           /\ ~ScopedOrExternal(x)
           /\ IsFunction(x) => x.args[1].id = 0

\* The keys whose resolve, with no scope, the resolve of k with no scope calls.
CalledWithoutScope(k) ==
  IF HasMulti(k)
  THEN UNION {Range(DependencyTokens[multiRegistrations[k][i]]) :
                i \in 1..Len(multiRegistrations[k])}
  ELSE IF HasKeyed(k) \/ ~HasRegistration(k) \/ k \in ScopedKeys THEN {}
  ELSE Range(DependencyTokens[GetRegistration(k).Implementation])

RECURSIVE ReachedWithoutScope(_, _)
ReachedWithoutScope(frontier, seen) ==
  IF frontier \subseteq seen THEN seen
  ELSE ReachedWithoutScope(UNION {CalledWithoutScope(k) : k \in frontier}, seen \cup frontier)

ReachesScoped(deps) == ReachedWithoutScope(deps, {}) \cap ScopedKeys # {}

Refused ==
  /\ ~last'.ok
  /\ last'.err = "LifetimeViolation"
  /\ singletons' = singletons
  /\ \A b \in built' \ built : b.key \notin SingletonKeys \cup ScopedKeys

SingletonRefused(k) ==
  (/\ k \in SingletonKeys
   /\ singletons[k] = NoValue
   /\ ReachesScoped(CalledWithoutScope(k))
   /\ \/ Resolve(k)
      \/ \E s \in LiveScopes : ~HasExternal(s, k) /\ ScopeResolve(s, k)) => Refused

KeyedCallRefused(key) ==
  (/\ keyedRegistrations["Weapon"][key] # NoKey
   /\ ReachesScoped(Range(DependencyTokens[keyedRegistrations["Weapon"][key]]))
   /\ CallKeyedFactory(Closure("Weapon", 0), key)) => Refused

C30_SingletonNeverHoldsScoped ==
  [][/\ SingletonsHoldNothingScoped'
     /\ \A k \in LifetimeContainerKeys : SingletonRefused(k)
     /\ \A key \in KeyedKeys : KeyedCallRefused(key)]_vars

(***************************************************************************)
(* Destruction of a scope whose Destroy callbacks call back into it        *)
(***************************************************************************)
RECURSIVE HeldElsewhere(_, _, _, _)
\* The number of entries equal to x in the lists of the scopes other than s.
HeldElsewhere(all, s, x, t) ==
  IF t > Len(all) THEN 0
  ELSE (IF t = s THEN 0
        ELSE Count(all[t].tickables, x) + Count(all[t].fixedTickables, x)
               + Count(all[t].renderTickables, x))
       + HeldElsewhere(all, s, x, t + 1)

InDispatcher(tm, x) ==
  Count(tm.tickables, x) + Count(tm.fixedTickables, x) + Count(tm.renderTickables, x)

\* No entry of the dispatcher goes back to a registration scope s made.
NothingRegisteredFor(s) ==
  \A x \in scopes[s].registered :
    InDispatcher(tickManager, x) <= HeldElsewhere(scopes, s, x, 1)

Emptied(sc) ==
  /\ sc.scopedInstances = EmptyMap
  /\ sc.externalInstances = EmptyMap
  /\ sc.destroyables = <<>>
  /\ sc.tickables = <<>>
  /\ sc.fixedTickables = <<>>
  /\ sc.renderTickables = <<>>

DestroyedClean(s) == Emptied(scopes[s]) /\ NothingRegisteredFor(s)

\* C31: once Destroy of a scope has returned, no list of the tick dispatcher holds
\* a registration made for that scope, and the cache, the externals and the
\* tracking lists of the scope are empty, whatever the Destroy callbacks did
\* during the destruction, calls on the scope being destroyed included.
C31_DestroyLeavesNothingBehind ==
  [][\A s \in 1..MaxScopes : Destroy(s) => DestroyedClean(s)']_vars

(***************************************************************************)
(* C32: when a scope is destroyed, every scope created from it through     *)
(* CreateChildScope, directly or through other children, is destroyed too: *)
(* no scope that is not destroyed has a destroyed ancestor, also when      *)
(* CreateChildScope is called from a Destroy callback while the parent is  *)
(* being destroyed.                                                        *)
(***************************************************************************)
C32_NoLiveScopeBelowDestroyed ==
  \A s \in ScopeIds : \A a \in Ancestors(s) : scopes[a].destroyed => scopes[s].destroyed

(***************************************************************************)
(* C33: every instance in the destroyable list or in a tickable list of a  *)
(* scope is a value the cache or the externals of that scope hold, and is  *)
(* in each list at most once; after ProvideRuntime has replaced the value  *)
(* of a key, the replaced value is in no list of the scope.                *)
(***************************************************************************)
TrackedOnceAndHeld(sc, list) ==
  \A x \in Range(list) : x \in HeldBy(sc) /\ Count(list, x) = 1

C33_TrackedInstancesAreHeld ==
  \A s \in ScopeIds :
    /\ TrackedOnceAndHeld(scopes[s], scopes[s].destroyables)
    /\ TrackedOnceAndHeld(scopes[s], scopes[s].tickables)
    /\ TrackedOnceAndHeld(scopes[s], scopes[s].fixedTickables)
    /\ TrackedOnceAndHeld(scopes[s], scopes[s].renderTickables)

(***************************************************************************)
(* C34: during one dispatch of the logic signal, every instance that is in *)
(* the logic-tick or the fixed-tick list when the dispatch starts and is   *)
(* not unregistered during it receives its callback exactly once (once per *)
(* entry it holds), also when a Tick callback destroys a scope and thereby *)
(* removes entries from the list being iterated.                           *)
(***************************************************************************)
CallsOf(calls, ev, x) ==
  Cardinality({i \in 1..Len(calls) : calls[i].ev = ev /\ calls[i].inst = x})

CalledOncePerEntry(before, after, calls, ev) ==
  \A x \in Range(before) :
    Count(after, x) = Count(before, x) => CallsOf(calls, ev, x) = Count(before, x)

C34_EveryListedInstanceIsTicked ==
  [][\A deltaTime \in DeltaTimes :
       (Heartbeat(deltaTime) /\ ~tickManager.paused)
         => /\ CalledOncePerEntry(tickManager.tickables, tickManager'.tickables,
                                  last'.calls, "Tick")
            /\ CalledOncePerEntry(tickManager.fixedTickables, tickManager'.fixedTickables,
                                  last'.calls, "FixedTick")]_vars

(***************************************************************************)
(* C35: Use is atomic on failure: a Use(module) that fails with            *)
(* DuplicateRegistration or InvalidToken leaves the registrations, the     *)
(* multi registrations, the keyed registrations and the validated flag as  *)
(* they were before the call, the records of the module that precede the   *)
(* offending one included.                                                 *)
(***************************************************************************)
C35_FailedUseChangesNothing ==
  [][\A module \in ValidationModules :
       (Use(module) /\ ~last'.ok)
         => UNCHANGED <<registrations, multiRegistrations, keyedRegistrations, validated>>]_vars

(***************************************************************************)
(* C36: in every reachable state in which the validated flag is true,      *)
(* every registration the container holds has all the dependency keys of   *)
(* its constructor registered, as a single, a multi or a keyed token: no   *)
(* sequence of Use, Validate, Launch and Resolve calls, failing ones       *)
(* included, reaches a validated container with an unchecked registration. *)
(***************************************************************************)
C36_ValidatedMeansChecked == validated => AllValid

(***************************************************************************)
(* C37: cycle detection has no false positives: the resolve of a key whose *)
(* reachable dependency graph is acyclic never fails with                  *)
(* CircularDependency, also when a key is reached along several paths or a *)
(* factory key occurs several times, because the resolution chain after    *)
(* each successful construction equals the chain before it.                *)
(***************************************************************************)
\* The keys the construction of the value of key k resolves.
DependsOn(k) ==
  IF HasMulti(k)
  THEN UNION {Range(DependencyTokens[multiRegistrations[k][i]]) :
                i \in 1..Len(multiRegistrations[k])}
  ELSE IF HasKeyed(k) \/ ~HasRegistration(k) THEN {}
  ELSE Range(DependencyTokens[GetRegistration(k).Implementation])

RECURSIVE ReachableFrom(_, _)
ReachableFrom(frontier, seen) ==
  IF frontier \subseteq seen THEN seen
  ELSE ReachableFrom(UNION {DependsOn(k) : k \in frontier}, seen \cup frontier)

Acyclic(k) == \A j \in ReachableFrom({k}, {}) : j \notin ReachableFrom(DependsOn(j), {})

C37_NoFalseCycle ==
  [][(last'.op \in {"Container.Resolve", "Scope.Resolve"} /\ Acyclic(last'.key))
       => /\ last'.err # "CircularDependency"
          /\ last'.ok => last'.chain = <<>>]_vars

\* The Report was resolved in a scope: the Logger, a factory, was constructed for
\* the Stats, for the Audit and for the Report itself.
C37_Witness ==
  /\ last.op = "Scope.Resolve"
  /\ last.key = "Report"
  /\ last.ok
  /\ Cardinality({b \in built : b.key = "Logger" /\ b.lifetime = "factory"
                                /\ b.inst \in Range(last.val.args)
                                     \cup UNION {Range(a.args) : a \in Range(last.val.args)}}) = 3

(***************************************************************************)
(* C38: for a module that registers single(C).Bind(T), the resolve of T    *)
(* and the resolve of C return the same instance: there is at most one     *)
(* instance of C, whichever key is resolved and however often Launch is    *)
(* called.                                                                 *)
(***************************************************************************)
\* Key t holds the registration that single(c).Bind(t) recorded.
BoundTo(t, c) ==
  /\ t # c
  /\ HasRegistration(t)
  /\ HasRegistration(c)
  /\ GetRegistration(c) = Single(c)
  /\ GetRegistration(t) = Registration(t, c, "singleton")

C38_BoundKeysShareInstance ==
  \A t \in Keys, c \in Classes :
    BoundTo(t, c)
      => /\ (singletons[t] # NoValue /\ singletons[c] # NoValue) => singletons[t] = singletons[c]
         /\ Cardinality({b \in built : b.inst.cls = c}) <= 1

(***************************************************************************)
(* C39: a resolve of a key K that fails, with MissingRegistration,         *)
(* CircularDependency, a lifetime violation (the check of Warmup on a      *)
(* service that is not a singleton included) or an error thrown by a       *)
(* constructor, caches no instance for K in the singleton cache or in the  *)
(* cache of the scope and adds nothing for K to the tracking lists of the  *)
(* scope or to the tick dispatcher, so that a later resolve attempts the   *)
(* construction again.                                                     *)
(***************************************************************************)
\* The entries the step adds to a list.
Added(before, after) == {x \in Range(after) : Count(after, x) > Count(before, x)}

BuiltFor(k) == {b.inst : b \in {c \in built' : c.key = k}}

NothingAddedFor(k, before, after) ==
  /\ Added(before.tickables, after.tickables) \cap BuiltFor(k) = {}
  /\ Added(before.fixedTickables, after.fixedTickables) \cap BuiltFor(k) = {}
  /\ Added(before.renderTickables, after.renderTickables) \cap BuiltFor(k) = {}

FailedResolveKeepsNothing(s, k) ==
  /\ singletons'[k] = singletons[k]
  /\ \A b \in built' \ built : b.key = k => b.inst \notin Held(World)'
  /\ NothingAddedFor(k, tickManager, tickManager')
  /\ s # 0 => /\ scopes'[s].scopedInstances[k] = scopes[s].scopedInstances[k]
              /\ NothingAddedFor(k, scopes[s], scopes'[s])
              /\ Added(scopes[s].destroyables, scopes'[s].destroyables) \cap BuiltFor(k) = {}

\* No object exists whose constructor throws, and none is kept that
\* ValidateLifecycleInterfaces refuses.
RefusedObjectsDropped ==
  \A b \in built :
    /\ "ConstructorThrows" \notin Capabilities[b.inst.cls]
    /\ (b.lifetime # "singleton" /\ "Warmup" \in Capabilities[b.inst.cls])
         => b.inst \notin Held(World)

C39_FailedResolveCachesNothing ==
  [][/\ (last'.op \in {"Container.Resolve", "Scope.Resolve"} /\ ~last'.ok)
          => FailedResolveKeepsNothing(last'.scope, last'.key)
     /\ RefusedObjectsDropped']_vars

\* The resolve of the scoped Cache, which has a Warmup method, was refused in a
\* scope that is alive, after the resolve of another key had succeeded there.
C39_Witness ==
  /\ last.op = "Scope.Resolve"
  /\ last.key = "Cache"
  /\ last.err = "LifecycleViolation"
  /\ ~scopes[last.scope].destroyed
  /\ scopes[last.scope].scopedInstances["Cache"] = NoValue
  /\ \E k \in Keys : scopes[last.scope].scopedInstances[k] # NoValue

(***************************************************************************)
(* C40: when CreateScope fails while resolving the declared root, the      *)
(* lists of the tick dispatcher are the same as before the call: the       *)
(* externals with a tick capability that were copied into the scope that   *)
(* is never returned are not left registered.                              *)
(***************************************************************************)
C40_FailedCreateScopeRegistersNothing ==
  [][(last'.op = "CreateScope" /\ ~last'.ok)
       => /\ tickManager'.tickables = tickManager.tickables
          /\ tickManager'.fixedTickables = tickManager.fixedTickables
          /\ tickManager'.renderTickables = tickManager.renderTickables]_vars

====
